---------------------------- MODULE Spec2Model ----------------------------
(***************************************************************************)
(* Campsite checker: availability change detection, notification routing  *)
(* and the per-user configuration store of the scheduled multi-user pass   *)
(* (src/src/campsite_checker/campsite_handler.py), and the bot commands    *)
(* that edit a user's searches (src/src/telegram_bot/telegram_handler.py). *)
(*                                                                         *)
(* Text is a sequence of characters.  The alphabet keeps what the code     *)
(* looks at: "M" is the tent glyph SUCCESS_EMOJI, ":" the colon, " " and   *)
(* "\n" whitespace, "0".."9" digits, "site" the letters s-i-t-e (any       *)
(* case), "W" the phrase "Something went wrong", "x" any other character. *)
(*                                                                         *)
(* The configuration store (S3) and the lookup (camping.check_park,        *)
(* camping.generate_human_output) are outside the repository's sources:    *)
(* the store is taken as reliable in the scheduled pass, the lookup's      *)
(* result is an input of each check.  Invocations that overlap interleave  *)
(* at the store's get_object and put_object calls.                         *)
(***************************************************************************)
EXTENDS Integers, Sequences, FiniteSets, TLC

VARIABLES
    store,        \* S3: user id -> stored configuration document
    env,          \* deployment environment: which credentials are set
    now,          \* the clock read by datetime.now()
    pc,           \* campsite_checker_handler: "idle" or "running"; otherwise
                  \* the kind of behaviour ("call", "bot", "overlap", ...)
    user_configs, \* the pass's get_all_user_configs() snapshot
    ui,           \* index of the user being processed in user_configs
    si,           \* index of the search being processed in that user's list
    lastCheck,    \* record of the pass's last loop iteration
    hist,         \* per search: what the checks before the last one reported
    dIn,          \* a stand-alone call's inputs; the local variables of
                  \* overlapping invocations
    dOut,         \* a stand-alone call's result; the history of a run
    lastCmd       \* record of the last bot command and what it did

vars == <<store, env, now, pc, user_configs, ui, si, lastCheck,
          hist, dIn, dOut, lastCmd>>

passVars == <<store, env, now, pc, user_configs, ui, si, lastCheck,
              hist, lastCmd>>

-----------------------------------------------------------------------------
(* Bounds *)

\* The largest site count the lookup reports in the scheduled pass.
MaxSites == 6

\* Scheduled passes per behaviour (the clock advances once per pass).
MaxPasses == 3

\* Site counts given to should_notify_availability_change alone: 0..MaxCount.
MaxCount == 22

\* Clock values of the stand-alone calls: 0..MaxClock.
MaxClock == 1

-----------------------------------------------------------------------------
(* Text helpers: Python str operations used by the handler *)

Null == [null |-> TRUE]

\* No bot command has been handled
NoCmd == [op |-> "none"]

Digit == <<"0", "1", "2", "3", "4", "5", "6", "7", "8", "9">>

IsDigit(c) == \E d \in 1..10 : Digit[d] = c

DigitVal(c) == (CHOOSE d \in 1..10 : Digit[d] = c) - 1

IsSpace(c) == c \in {" ", "\n"}

\* c in s
Contains(s, c) == \E i \in 1..Len(s) : s[i] = c

\* s.strip()
Strip(s) ==
    LET keep == {i \in 1..Len(s) : ~IsSpace(s[i])}
    IN  IF keep = {} THEN <<>>
        ELSE LET lo == CHOOSE i \in keep : \A j \in keep : i <= j
                 hi == CHOOSE i \in keep : \A j \in keep : i >= j
             IN  SubSeq(s, lo, hi)

\* s.split(sep): always at least one piece
RECURSIVE Split(_, _)
Split(s, sep) ==
    IF ~Contains(s, sep) THEN <<s>>
    ELSE LET k == CHOOSE i \in 1..Len(s) :
                     s[i] = sep /\ \A j \in 1..(i - 1) : s[j] # sep
         IN  <<SubSeq(s, 1, k - 1)>> \o Split(SubSeq(s, k + 1, Len(s)), sep)

\* int(digits)
RECURSIVE ToInt(_)
ToInt(ds) ==
    IF ds = <<>> THEN 0
    ELSE 10 * ToInt(SubSeq(ds, 1, Len(ds) - 1)) + DigitVal(ds[Len(ds)])

\* re.search(r'(\d+)\s+site', s, re.IGNORECASE): the set of (start, end) of
\* digit runs followed by whitespace and then "site"; the leftmost start and
\* the longest run win.
SiteMatches(s) ==
    {m \in (1..Len(s)) \X (1..Len(s)) :
        /\ m[1] <= m[2]
        /\ \A i \in m[1]..m[2] : IsDigit(s[i])
        /\ \E k \in (m[2] + 2)..Len(s) :
              /\ s[k] = "site"
              /\ \A j \in (m[2] + 1)..(k - 1) : IsSpace(s[j])}

SiteSearch_FirstNumber(s) ==
    LET ds == {i \in 1..Len(s) : IsDigit(s[i])}
    IN  IF ds = {} THEN -1
        ELSE LET lo == CHOOSE i \in ds : \A j \in ds : i <= j
                 hi == CHOOSE i \in ds :
                           /\ i >= lo
                           /\ \A j \in lo..i : IsDigit(s[j])
                           /\ (i = Len(s) \/ ~IsDigit(s[i + 1]))
             IN  ToInt(SubSeq(s, lo, hi))

\* match.group(1) as an integer, or -1 when there is no match
SiteSearch(s) ==
    LET ms == SiteMatches(s)
    IN  IF ms = {} THEN -1
        ELSE LET m == CHOOSE a \in ms : \A b \in ms : a[1] <= b[1]
             IN  ToInt(SubSeq(s, m[1], m[2]))

RECURSIVE SumSeq(_)
SumSeq(q) == IF q = <<>> THEN 0 ELSE Head(q) + SumSeq(Tail(q))

LineSites_IgnoresMarker(line) ==
    IF Contains(line, ":")
    THEN LET parts == Split(line, ":")
         IN  IF Len(parts) >= 2
             THEN LET n == SiteSearch(Strip(parts[2]))
                  IN  IF n >= 0 THEN n ELSE 0
             ELSE 0
    ELSE 0

\* One line's contribution to the total
LineSites(line) ==
    IF Contains(line, "M") /\ Contains(line, ":")
    THEN LET parts == Split(line, ":")
         IN  IF Len(parts) >= 2
             THEN LET n == SiteSearch(Strip(parts[2]))
                  IN  IF n >= 0 THEN n ELSE 0
             ELSE 0
    ELSE 0

extract_site_count_from_output(camping_output) ==
    IF camping_output = <<>> THEN 0
    ELSE LET lines == Split(Strip(camping_output), "\n")
         IN  SumSeq([i \in 1..Len(lines) |-> LineSites(lines[i])])

\* The message kind format_campsite_availability_message builds: "broken"
\* (the Campbot Error text), "found", or "none" (message None)
format_campsite_availability_message(camping_output, has_availabilities) ==
    IF Contains(camping_output, "W") THEN "broken"
    ELSE IF ~has_availabilities THEN "none"
    ELSE LET lines == Split(Strip(camping_output), "\n")
         IN  IF \E i \in 1..Len(lines) :
                    Contains(lines[i], "M") /\ Contains(lines[i], ":")
             THEN "found" ELSE "none"

-----------------------------------------------------------------------------
(* Reports of the lookup, as generate_human_output writes them *)

NumText(n) ==
    IF n < 10 THEN <<Digit[n + 1]>>
    ELSE <<Digit[(n \div 10) + 1], Digit[(n % 10) + 1]>>

\* "M x: <n> site(s) available"
ParkLine(n) == <<"M", " ", "x", ":", " ">> \o NumText(n) \o <<" ", "site">>

\* A first line without marker, then one park line
OnePark(n) == <<"x", "\n">> \o ParkLine(n)

\* Two park lines: n sites split over two parks
TwoParks(a, b) == <<"x", "\n">> \o ParkLine(a) \o <<"\n">> \o ParkLine(b)

NoParks == <<"x">>

BrokenReport == <<"W">>

-----------------------------------------------------------------------------
(* Change detection *)

current_state_CountsParks(result) ==
    [has_sites |-> result.has_availabilities,
     site_count |-> IF result.has_availabilities
                    THEN Len(SelectSeq(Split(Strip(result.camping_output), "\n"),
                                       LAMBDA line : Contains(line, "M")))
                    ELSE 0,
     last_checked |-> now]

\* The availability state built from the current result
current_state(result) ==
    LET current_has_sites == result.has_availabilities
        current_count ==
            IF current_has_sites
            THEN extract_site_count_from_output(result.camping_output)
            ELSE 0
    IN  [has_sites |-> current_has_sites,
         site_count |-> current_count,
         last_checked |-> now]

SignificantIncrease_Plus3(current_count, previous_count) ==
    \/ current_count >= previous_count * 2
    \/ current_count >= previous_count + 3

SignificantIncrease_Doubling(current_count, previous_count) ==
    \/ current_count >= previous_count * 2
    \/ current_count >= previous_count + 5

\* The threshold of "Case 3"
SignificantIncrease(current_count, previous_count) ==
    \/ (current_count >= previous_count * 2 /\ current_count > previous_count + 2)
    \/ current_count >= previous_count + 5

should_notify_NotifyDisappeared(result, last_state) ==
    LET cur == current_state(result)
    IN  IF last_state = Null
        THEN [notify |-> cur.has_sites,
              reason |-> IF cur.has_sites THEN "first_availability_found"
                         ELSE "no_availability",
              new_state |-> cur]
        ELSE IF cur.has_sites # last_state.has_sites
        THEN [notify |-> TRUE,
              reason |-> IF cur.has_sites THEN "new_availability"
                         ELSE "availability_disappeared",
              new_state |-> cur]
        ELSE [notify |-> FALSE,
              reason |-> IF cur.has_sites THEN "availability_unchanged"
                         ELSE "no_availability",
              new_state |-> cur]

should_notify_ExpiresState(result, last_state) ==
    IF last_state # Null /\ last_state.last_checked = 0
    THEN should_notify_NotifyDisappeared(result, Null)
    ELSE should_notify_NotifyDisappeared(result, last_state)

\* Returns (should_notify, reason, new_state)
should_notify_availability_change(result, last_state) ==
    LET cur == current_state(result)
    IN  IF last_state = Null
        THEN IF cur.has_sites
             THEN [notify |-> TRUE, reason |-> "first_availability_found",
                   new_state |-> cur]
             ELSE [notify |-> FALSE, reason |-> "no_availability",
                   new_state |-> cur]
        ELSE LET previous_has_sites == last_state.has_sites
                 previous_count == last_state.site_count
             IN  IF cur.has_sites /\ ~previous_has_sites
                 THEN [notify |-> TRUE, reason |-> "new_availability",
                       new_state |-> cur]
                 ELSE IF ~cur.has_sites /\ previous_has_sites
                 THEN [notify |-> FALSE, reason |-> "availability_disappeared",
                       new_state |-> cur]
                 ELSE IF cur.has_sites /\ previous_has_sites
                 THEN IF SignificantIncrease(cur.site_count, previous_count)
                      THEN [notify |-> TRUE, reason |-> "significant_increase",
                            new_state |-> cur]
                      ELSE [notify |-> FALSE, reason |-> "availability_unchanged",
                            new_state |-> cur]
                 ELSE [notify |-> FALSE, reason |-> "no_availability",
                       new_state |-> cur]

-----------------------------------------------------------------------------
(* The change-detection function on its own: inputs drawn in Init *)

OkResult(name, text, has) ==
    [search_name |-> name, kind |-> "ok", error |-> "",
     camping_output |-> text, has_availabilities |-> has]

DecideReports ==
    {OnePark(n) : n \in 0..MaxCount} \cup {NoParks, <<>>, TwoParks(2, 3)}

DecideStates ==
    {Null} \cup
    {[has_sites |-> TRUE, site_count |-> n, last_checked |-> t] :
        n \in 0..MaxCount, t \in 0..MaxClock} \cup
    {[has_sites |-> FALSE, site_count |-> 0, last_checked |-> t] :
        t \in 0..MaxClock}

\* No pass is running and none starts
NoPass ==
    /\ pc = "call"
    /\ user_configs = <<>>
    /\ ui = 0
    /\ si = 0
    /\ lastCheck = [kind |-> "none"]
    /\ hist = <<>>
    /\ lastCmd = NoCmd

InitDecide ==
    /\ store = <<>>
    /\ env = Null
    /\ now \in 1..(MaxClock + 1)
    /\ NoPass
    /\ dIn \in {[result |-> OkResult("A", text, has), last_state |-> st] :
                   text \in DecideReports, has \in BOOLEAN, st \in DecideStates}
    /\ dOut = Null

DecideCall ==
    /\ pc = "call"
    /\ dOut = Null
    /\ dOut' = should_notify_availability_change(dIn.result, dIn.last_state)
    /\ UNCHANGED <<dIn, passVars>>

NextDecide == DecideCall

SpecDecide == InitDecide /\ [][NextDecide]_vars

-----------------------------------------------------------------------------
(* The extractor on its own: reports built line by line in Init *)

\* The most lines a report has
MaxLines == 2

\* What follows the label of a line, with the number of sites it announces:
\* "<n> site", "<n> site x 7 site" (n out of 7), "x" (no number), "4 x" (a
\* number without "site"), "4site", "x 4 site" and "7 x 4 site"
Segments ==
    {[text |-> NumText(n) \o <<" ", "site">>, sites |-> n, malformed |-> FALSE] :
        n \in {2, 13}} \cup
    {[text |-> <<"4", " ", "site", " ", "x", " ", "7", " ", "site">>,
      sites |-> 4, malformed |-> FALSE],
     [text |-> <<"x">>, sites |-> 0, malformed |-> TRUE],
     [text |-> <<"4", " ", "x">>, sites |-> 0, malformed |-> TRUE],
     [text |-> <<"4", "site">>, sites |-> 0, malformed |-> TRUE],
     [text |-> <<"x", " ", "4", " ", "site">>, sites |-> 4, malformed |-> FALSE],
     [text |-> <<"7", " ", "x", " ", "4", " ", "site">>, sites |-> 4,
      malformed |-> FALSE]}

\* A line "[M ]x[:] <segment>" and the sites it stands for: those of its
\* segment when it has the marker and the colon, none otherwise.  The last
\* line has a label with a colon of its own: the text between its first and
\* second colon holds no count.
ReportLines ==
    {[text |-> (IF mk THEN <<"M", " ">> ELSE <<>>) \o <<"x">>
                   \o (IF co THEN <<":", " ">> ELSE <<" ">>) \o seg.text,
      sites |-> IF mk /\ co THEN seg.sites ELSE 0,
      malformed |-> mk /\ co /\ seg.malformed] :
        mk \in BOOLEAN, co \in BOOLEAN, seg \in Segments} \cup
    {[text |-> <<"M", " ", "x", ":", " ", "x", ":", " ", "4", " ", "site">>,
      sites |-> 0, malformed |-> TRUE]}

\* The lines joined with newlines
RECURSIVE JoinLines(_)
JoinLines(lines) ==
    IF lines = <<>> THEN <<>>
    ELSE IF Len(lines) = 1 THEN lines[1].text
    ELSE lines[1].text \o <<"\n">> \o JoinLines(Tail(lines))

\* The report text: the lines, with or without a blank line before and a
\* newline after
ReportText(in) ==
    IF in.padded THEN <<"\n", "\n">> \o JoinLines(in.lines) \o <<"\n">>
    ELSE JoinLines(in.lines)

InitExtract ==
    /\ store = <<>>
    /\ env = Null
    /\ now = 0
    /\ pc = "extract"
    /\ user_configs = <<>>
    /\ ui = 0
    /\ si = 0
    /\ lastCheck = [kind |-> "none"]
    /\ hist = <<>>
    /\ lastCmd = NoCmd
    /\ dIn \in {[lines |-> lines, padded |-> padded] :
                   lines \in UNION {[1..k -> ReportLines] : k \in 0..MaxLines},
                   padded \in BOOLEAN}
    /\ dOut = Null

ExtractCall ==
    /\ pc = "extract"
    /\ dOut = Null
    /\ dOut' = [total_sites |->
                    extract_site_count_from_output(ReportText(dIn))]
    /\ UNCHANGED <<dIn, passVars>>

NextExtract == ExtractCall

SpecExtract == InitExtract /\ [][NextExtract]_vars

-----------------------------------------------------------------------------
(* The configuration store and the pass's view of it *)

Users == <<"u1", "u2">>

UserIds == {Users[i] : i \in 1..Len(Users)}

NewSearch(name, enabled) ==
    [name |-> name, enabled |-> enabled, last_availability_state |-> Null]

\* load_user_config of every listed key, kept when it has searches, with the
\* user id added for notification routing
RECURSIVE get_all_user_configs(_, _)
get_all_user_configs(s3, i) ==
    IF i > Len(Users) THEN <<>>
    ELSE LET config == s3[Users[i]]
             rest == get_all_user_configs(s3, i + 1)
         IN  IF config # Null /\ config.searches # <<>>
             THEN <<[user_id |-> Users[i],
                     notification_settings |-> config.notification_settings,
                     searches |-> config.searches]>> \o rest
             ELSE rest

\* Index of the first search named search_name, 0 when there is none
FirstNamed(searches, search_name) ==
    LET hits == {i \in 1..Len(searches) : searches[i].name = search_name}
    IN  IF hits = {} THEN 0 ELSE CHOOSE i \in hits : \A j \in hits : i <= j

_get_search_last_state(result, user_config) ==
    LET k == FirstNamed(user_config.searches, result.search_name)
    IN  IF k = 0 THEN Null
        ELSE user_config.searches[k].last_availability_state

update_state_Never(s3, user_id, search_name, new_state) == s3

update_state_EverySearch(s3, user_id, search_name, new_state) ==
    IF s3[user_id] = Null THEN s3
    ELSE [s3 EXCEPT ![user_id].searches =
              [i \in 1..Len(@) |->
                  [@[i] EXCEPT !.last_availability_state = new_state]]]

\* Load the user's document, set the state of the first search with that name,
\* save the document: the store after the call
update_search_availability_state(s3, user_id, search_name, new_state) ==
    IF s3[user_id] = Null THEN s3
    ELSE LET k == FirstNamed(s3[user_id].searches, search_name)
         IN  IF k = 0 THEN s3
             ELSE [s3 EXCEPT ![user_id].searches[k].last_availability_state =
                                  new_state]

update_if_needed_NeverWrites(result, user_config) == Null

update_if_needed_KeepsCount(result, user_config) ==
    LET last_state == _get_search_last_state(result, user_config)
    IN  IF last_state = Null
        THEN [has_sites |-> FALSE, site_count |-> 0, last_checked |-> now]
        ELSE IF last_state.has_sites
        THEN [has_sites |-> FALSE, site_count |-> last_state.site_count,
              last_checked |-> now]
        ELSE Null

update_if_needed_AlwaysWrites(result, user_config) ==
    [has_sites |-> FALSE, site_count |-> 0, last_checked |-> now]

\* The state _update_search_state_if_needed writes, Null when it writes nothing
_update_search_state_if_needed(result, user_config) ==
    LET last_state == _get_search_last_state(result, user_config)
        new_state == [has_sites |-> FALSE, site_count |-> 0, last_checked |-> now]
    IN  IF last_state = Null \/ last_state.has_sites
        THEN new_state
        ELSE Null

-----------------------------------------------------------------------------
(* Notification channels *)

\* Telegram block: the channels on which send_telegram_notification is called
TelegramAttempt(user_config) ==
    IF user_config.notification_settings.telegram_enabled /\ env.bot_token
    THEN <<"telegram">> ELSE <<>>

PushoverAttempt_IgnoresSetting(user_config) ==
    IF env.pushover_keys THEN <<"pushover">> ELSE <<>>

\* Pushover block: the channels on which the Pushover request is made
PushoverAttempt(user_config) ==
    IF user_config.notification_settings.pushover_enabled /\ env.pushover_keys
    THEN <<"pushover">> ELSE <<>>

\* What the two channel blocks do with one message: the requests made, in
\* order, and those counted in notifications_sent
SendBoth(user_config, tg_ok, po_ok) ==
    LET attempts == TelegramAttempt(user_config) \o PushoverAttempt(user_config)
        Ok(c) == (c = "telegram" /\ tg_ok) \/ (c = "pushover" /\ po_ok)
    IN  [attempts |-> attempts, delivered |-> SelectSeq(attempts, Ok)]

NoSend == [attempts |-> <<>>, delivered |-> <<>>]

Outcome(decision, write, tag, msg, sent) ==
    [notify |-> decision.notify, reason |-> decision.reason,
     new_state |-> decision.new_state, write |-> write,
     tag |-> tag, msg |-> msg,
     attempts |-> sent.attempts, delivered |-> sent.delivered]

NoDecision == [notify |-> FALSE, reason |-> "none", new_state |-> Null]

send_error_TelegramOnly(result, user_config, tg_ok, po_ok) ==
    Outcome(NoDecision, Null, "error", "error",
            [attempts |-> TelegramAttempt(user_config),
             delivered |-> IF tg_ok THEN TelegramAttempt(user_config) ELSE <<>>])

_send_error_notification(result, user_config, tg_ok, po_ok) ==
    Outcome(NoDecision, Null, "error", "error", SendBoth(user_config, tg_ok, po_ok))

availability_ResendsUnchanged(result, user_config, tg_ok, po_ok) ==
    IF ~result.has_availabilities
    THEN Outcome(NoDecision, _update_search_state_if_needed(result, user_config),
                 "none", "none", NoSend)
    ELSE LET d == should_notify_availability_change(
                      result, _get_search_last_state(result, user_config))
             msg == format_campsite_availability_message(
                        result.camping_output, result.has_availabilities)
         IN  IF msg = "none" THEN Outcome(d, d.new_state, "none", "none", NoSend)
             ELSE Outcome(d, d.new_state, d.reason, msg,
                          SendBoth(user_config, tg_ok, po_ok))

availability_WritesOnlyOnNotify(result, user_config, tg_ok, po_ok) ==
    IF ~result.has_availabilities
    THEN Outcome(NoDecision, _update_search_state_if_needed(result, user_config),
                 "none", "none", NoSend)
    ELSE LET d == should_notify_availability_change(
                      result, _get_search_last_state(result, user_config))
             msg == format_campsite_availability_message(
                        result.camping_output, result.has_availabilities)
         IN  IF ~d.notify THEN Outcome(d, Null, "none", "none", NoSend)
             ELSE IF msg = "none" THEN Outcome(d, d.new_state, "none", "none", NoSend)
             ELSE Outcome(d, d.new_state, d.reason, msg,
                          SendBoth(user_config, tg_ok, po_ok))

availability_RollsBackOnFailure(result, user_config, tg_ok, po_ok) ==
    IF ~result.has_availabilities
    THEN Outcome(NoDecision, _update_search_state_if_needed(result, user_config),
                 "none", "none", NoSend)
    ELSE LET last_state == _get_search_last_state(result, user_config)
             d == should_notify_availability_change(result, last_state)
             msg == format_campsite_availability_message(
                        result.camping_output, result.has_availabilities)
             sent == SendBoth(user_config, tg_ok, po_ok)
         IN  IF ~d.notify THEN Outcome(d, d.new_state, "none", "none", NoSend)
             ELSE IF msg = "none" THEN Outcome(d, d.new_state, "none", "none", NoSend)
             ELSE Outcome(d, IF sent.delivered = sent.attempts THEN d.new_state
                             ELSE Null,
                          d.reason, msg, sent)

\* notify_user for a result without error: state-based change detection, the
\* state write, then the message on the enabled channels
notify_user_availability(result, user_config, tg_ok, po_ok) ==
    IF ~result.has_availabilities
    THEN Outcome(NoDecision, _update_search_state_if_needed(result, user_config),
                 "none", "none", NoSend)
    ELSE LET last_state == _get_search_last_state(result, user_config)
             d == should_notify_availability_change(result, last_state)
             msg == format_campsite_availability_message(
                        result.camping_output, result.has_availabilities)
         IN  IF ~d.notify THEN Outcome(d, d.new_state, "none", "none", NoSend)
             ELSE IF msg = "none" THEN Outcome(d, d.new_state, "none", "none", NoSend)
             ELSE Outcome(d, d.new_state, d.reason, msg,
                          SendBoth(user_config, tg_ok, po_ok))

notify_user_WritesOnError(result, user_config, tg_ok, po_ok) ==
    IF result.kind = "error"
    THEN Outcome(NoDecision,
                 [has_sites |-> FALSE, site_count |-> 0, last_checked |-> now],
                 "error", "error", SendBoth(user_config, tg_ok, po_ok))
    ELSE notify_user_availability(result, user_config, tg_ok, po_ok)

\* The effects of notify_user: the decision, the state written (Null when no
\* write is made), the message and the channels it went to
notify_user(result, user_config, tg_ok, po_ok) ==
    IF result.kind = "error"
    THEN _send_error_notification(result, user_config, tg_ok, po_ok)
    ELSE notify_user_availability(result, user_config, tg_ok, po_ok)

\* The Telegram block raises inside its try when no bot token is set
\* (telegram_result is read unbound)
telegram_block_raises(user_config, tg_ok) ==
    user_config.notification_settings.telegram_enabled /\ ~env.bot_token

\* send_pushover_notification raises when a credential is missing or the
\* request fails
pushover_block_raises(user_config, po_ok) ==
    user_config.notification_settings.pushover_enabled
        /\ (~env.pushover_keys \/ ~po_ok)

notify_user_raises_Uncaught(result, user_config, tg_ok, po_ok) ==
    IF result.kind = "ok" /\ ~result.has_availabilities THEN FALSE
    ELSE telegram_block_raises(user_config, tg_ok)
             \/ pushover_block_raises(user_config, po_ok)

\* Whether an exception leaves notify_user: each channel block is inside its
\* own "try ... except Exception", which catches whatever the block raises
notify_user_raises(result, user_config, tg_ok, po_ok) ==
    LET Escapes(raised, caught) == raised /\ ~caught
    IN  \/ Escapes(telegram_block_raises(user_config, tg_ok), TRUE)
        \/ Escapes(pushover_block_raises(user_config, po_ok), TRUE)

-----------------------------------------------------------------------------
(* The scheduled multi-user pass *)

ErrorTexts ==
    {"HTTP 429: Too Many Requests", "Invalid park ID 99999"}

ErrorResult(name, text) ==
    [search_name |-> name, kind |-> "error", error |-> text,
     camping_output |-> <<>>, has_availabilities |-> FALSE]

\* What process_search can return for an enabled search
Results(name) ==
    {ErrorResult(name, e) : e \in ErrorTexts} \cup
    {OkResult(name, NoParks, FALSE)} \cup
    {OkResult(name, OnePark(n), TRUE) : n \in {3, MaxSites}} \cup
    {OkResult(name, NoParks, TRUE), OkResult(name, BrokenReport, TRUE)}

NoCheck ==
    [kind |-> "none", user |-> "", name |-> "", error |-> "",
     has |-> FALSE, count |-> 0, prev |-> Null, stored_before |-> Null,
     last_avail_before |-> -1, gone_before |-> FALSE, error_before |-> FALSE,
     failed_before |-> FALSE,
     out |-> Outcome(NoDecision, Null, "none", "none", NoSend)]

SearchKeys == {<<"u1", "A">>, <<"u1", "B">>, <<"u1", "C">>, <<"u2", "A">>}

NoHistory ==
    [k \in SearchKeys |->
        [last_avail |-> -1, gone |-> FALSE, last_error |-> FALSE,
         last_failed |-> FALSE]]

\* Two users; u1 has a disabled second search.  Either every credential is
\* set and u1's channel settings are arbitrary, or u1 has both channels on and
\* the credentials are arbitrary.  u2 has the bot's default settings.
Init ==
    /\ \E tg \in BOOLEAN, po \in BOOLEAN :
          /\ store = [u \in UserIds |->
                      IF u = "u1"
                      THEN [notification_settings |->
                                [telegram_enabled |-> tg, pushover_enabled |-> po],
                            searches |-> <<NewSearch("A", TRUE), NewSearch("B", FALSE)>>]
                      ELSE [notification_settings |->
                                [telegram_enabled |-> TRUE, pushover_enabled |-> FALSE],
                            searches |-> <<NewSearch("A", TRUE)>>]]
          /\ env \in [bot_token : BOOLEAN, pushover_keys : BOOLEAN]
          /\ (tg /\ po) \/ (env.bot_token /\ env.pushover_keys)
    /\ now = 0
    /\ pc = "idle"
    /\ user_configs = <<>>
    /\ ui = 0
    /\ si = 0
    /\ lastCheck = NoCheck
    /\ hist = NoHistory
    /\ dIn = Null
    /\ dOut = Null
    /\ lastCmd = NoCmd

\* One user with the searches A, B (disabled) and C, both channels enabled
InitOneUser ==
    /\ store = [u \in UserIds |->
                   IF u = "u1"
                   THEN [notification_settings |->
                             [telegram_enabled |-> TRUE, pushover_enabled |-> TRUE],
                         searches |-> <<NewSearch("A", TRUE), NewSearch("B", FALSE),
                                        NewSearch("C", TRUE)>>]
                   ELSE Null]
    /\ env \in [bot_token : BOOLEAN, pushover_keys : {TRUE}]
    /\ now = 0
    /\ pc = "idle"
    /\ user_configs = <<>>
    /\ ui = 0
    /\ si = 0
    /\ lastCheck = NoCheck
    /\ hist = NoHistory
    /\ dIn = Null
    /\ dOut = Null
    /\ lastCmd = NoCmd

IsEnabled_Always(search_config) == TRUE

\* "search_config.get('enabled', True)"
IsEnabled(search_config) == search_config.enabled

\* campsite_checker_handler up to the loop over user_configs
StartPass ==
    /\ pc = "idle"
    /\ now < MaxPasses
    /\ now' = now + 1
    /\ LET configs == get_all_user_configs(store, 1)
       IN  /\ user_configs' = configs
           /\ pc' = IF configs = <<>> THEN "idle" ELSE "running"
           /\ ui' = IF configs = <<>> THEN 0 ELSE 1
           /\ si' = IF configs = <<>> THEN 0 ELSE 1
    /\ UNCHANGED <<store, env, lastCheck, hist, dIn, dOut, lastCmd>>

Current == user_configs[ui].searches[si]

\* The loop moves to the next search, or to the next user's first search
Advance ==
    IF si < Len(user_configs[ui].searches)
    THEN /\ ui' = ui
         /\ si' = si + 1
    ELSE /\ ui' = ui + 1
         /\ si' = 1

InLoop == pc = "running" /\ ui <= Len(user_configs)

\* "if not search_config.get('enabled', True): continue"
SkipDisabled ==
    /\ InLoop
    /\ ~IsEnabled(Current)
    /\ Advance
    /\ lastCheck' = [NoCheck EXCEPT !.kind = "skipped",
                                    !.user = user_configs[ui].user_id,
                                    !.name = Current.name]
    /\ UNCHANGED <<store, env, now, pc, user_configs, hist, dIn, dOut, lastCmd>>

StoredState(s3, user_id, search_name) ==
    LET k == FirstNamed(s3[user_id].searches, search_name)
    IN  IF k = 0 THEN Null ELSE s3[user_id].searches[k].last_availability_state

\* One iteration for an enabled search: process_search returned result, then
\* notify_user(result, user_config, bucket_name)
Iteration(result, tg_ok, po_ok) ==
    LET user_config == user_configs[ui]
        user_id == user_config.user_id
        key == <<user_id, result.search_name>>
    IN  \E out \in {notify_user(result, user_config, tg_ok, po_ok)},
           before \in {StoredState(store, user_id, result.search_name)},
           count \in {IF result.has_availabilities
                      THEN extract_site_count_from_output(result.camping_output)
                      ELSE 0} :
        /\ store' = IF out.write = Null THEN store
                    ELSE update_search_availability_state(
                             store, user_id, result.search_name, out.write)
        /\ lastCheck' =
               [kind |-> result.kind,
                user |-> user_id, name |-> result.search_name,
                error |-> result.error, has |-> result.has_availabilities,
                count |-> count,
                prev |-> _get_search_last_state(result, user_config),
                stored_before |-> before,
                last_avail_before |-> hist[key].last_avail,
                gone_before |-> hist[key].gone,
                error_before |-> hist[key].last_error,
                failed_before |-> hist[key].last_failed,
                out |-> out]
        /\ hist' = [hist EXCEPT ![key] =
               IF result.kind = "error"
               THEN [@ EXCEPT !.last_avail = -1, !.last_error = TRUE,
                              !.last_failed = FALSE]
               ELSE IF result.has_availabilities
               THEN [last_avail |-> count, gone |-> FALSE, last_error |-> FALSE,
                     last_failed |-> (out.attempts # out.delivered)]
               ELSE [last_avail |-> -1,
                     gone |-> @.gone \/ (before # Null /\ before.has_sites),
                     last_error |-> FALSE, last_failed |-> FALSE]]

CheckSearch ==
    /\ InLoop
    /\ IsEnabled(Current)
    /\ \E result \in Results(Current.name), tg_ok \in BOOLEAN, po_ok \in BOOLEAN :
          /\ Iteration(result, tg_ok, po_ok)
          /\ IF notify_user_raises(result, user_configs[ui], tg_ok, po_ok)
             THEN \* the handler's outer "except Exception": the pass is over
                  /\ pc' = "idle"
                  /\ user_configs' = <<>>
                  /\ ui' = 0
                  /\ si' = 0
             ELSE /\ Advance
                  /\ UNCHANGED <<pc, user_configs>>
    /\ UNCHANGED <<env, now, dIn, dOut, lastCmd>>

\* The loop is over: the handler returns its summary
EndPass ==
    /\ pc = "running"
    /\ ui > Len(user_configs)
    /\ pc' = "idle"
    /\ user_configs' = <<>>
    /\ ui' = 0
    /\ si' = 0
    /\ lastCheck' = NoCheck
    /\ UNCHANGED <<store, env, now, hist, dIn, dOut, lastCmd>>

Next ==
    \/ StartPass
    \/ SkipDisabled
    \/ CheckSearch
    \/ EndPass

Spec == Init /\ [][Next]_vars

\* The scheduled pass from either configuration of the store
SpecPasses == (Init \/ InitOneUser) /\ [][Next]_vars

\* The scheduled pass together with stand-alone calls of the decision function
SpecAll == (Init \/ InitDecide) /\ [][Next \/ NextDecide]_vars

-----------------------------------------------------------------------------
(* One search checked pass after pass, the count moving in small steps *)

\* The largest count a lookup reports here
MaxCreep == 9

\* The number of passes
MaxChecks == 4

\* No check with availability yet, or the last check had none
NoRun == [len |-> 0, first |-> -1, last |-> -1, notified |-> FALSE]

\* u1 has the one search D, never checked, and both channels
InitCreep ==
    /\ store = [u \in UserIds |->
                   IF u = "u1"
                   THEN [notification_settings |->
                             [telegram_enabled |-> TRUE, pushover_enabled |-> TRUE],
                         searches |-> <<NewSearch("D", TRUE)>>]
                   ELSE Null]
    /\ env = [bot_token |-> TRUE, pushover_keys |-> TRUE]
    /\ now = 0
    /\ pc = "creep"
    /\ user_configs = <<>>
    /\ ui = 0
    /\ si = 0
    /\ lastCheck = NoCheck
    /\ hist = NoHistory
    /\ lastCmd = NoCmd
    /\ dIn = Null
    /\ dOut = NoRun

\* The run of consecutive checks with availability in which no count is more
\* than 2 above the one before: its length, first and last count, and whether
\* a message was sent after its first check
NextRun(run, result, n, out) ==
    IF result.kind = "error" \/ ~result.has_availabilities THEN NoRun
    ELSE IF run.len > 0 /\ n <= run.last + 2
    THEN [len |-> run.len + 1, first |-> run.first, last |-> n,
          notified |-> run.notified \/ out.attempts # <<>>]
    ELSE [len |-> 1, first |-> n, last |-> n, notified |-> FALSE]

\* A whole scheduled pass over the one search: the lookup, notify_user and
\* the state write
SearchPass ==
    /\ pc = "creep"
    /\ now < MaxChecks
    /\ now' = now + 1
    /\ \E n \in (-2)..MaxCreep, tg_ok \in BOOLEAN, po_ok \in BOOLEAN :
          \E user_config \in {get_all_user_configs(store, 1)[1]},
             result \in {IF n = -2 THEN ErrorResult("D", "Invalid park ID 99999")
                         ELSE IF n = -1 THEN OkResult("D", NoParks, FALSE)
                         ELSE OkResult("D", OnePark(n), TRUE)} :
             \E out \in {notify_user(result, user_config, tg_ok, po_ok)} :
                /\ store' = IF out.write = Null THEN store
                            ELSE update_search_availability_state(
                                     store, user_config.user_id,
                                     result.search_name, out.write)
                /\ dOut' = NextRun(dOut, result, n, out)
    /\ UNCHANGED <<env, pc, user_configs, ui, si, lastCheck, hist, lastCmd, dIn>>

NextCreep == SearchPass

SpecCreep == InitCreep /\ [][NextCreep]_vars

-----------------------------------------------------------------------------
(* The manual check of one user (handle_manual_check), started by /check *)

\* "[s for s in user_searches if s.get('enabled', True)]"
enabled_searches(user_config) == SelectSeq(user_config.searches, IsEnabled)

ManualSend_ErrorsOnly(result, tg_ok) ==
    IF result.kind = "error"
    THEN [attempts |-> <<"telegram">>,
          delivered |-> IF tg_ok THEN <<"telegram">> ELSE <<>>]
    ELSE NoSend

\* The message of a manual check goes to the chat of the request
ManualSend(result, tg_ok) ==
    IF result.has_availabilities \/ result.kind = "error"
    THEN [attempts |-> <<"telegram">>,
          delivered |-> IF tg_ok THEN <<"telegram">> ELSE <<>>]
    ELSE NoSend

\* handle_manual_check up to its loop: without a document, searches or
\* enabled searches it sends one message and returns
StartManual ==
    /\ pc = "idle"
    /\ \E user_id \in UserIds :
          LET user_config == store[user_id]
          IN  IF user_config = Null \/ user_config.searches = <<>>
                     \/ enabled_searches(user_config) = <<>>
              THEN /\ lastCheck' = [NoCheck EXCEPT !.kind = "manual_none",
                                                   !.user = user_id]
                   /\ UNCHANGED <<pc, user_configs, ui, si>>
              ELSE /\ lastCheck' = NoCheck
                   /\ pc' = "manual"
                   /\ user_configs' =
                          <<[user_id |-> user_id,
                             notification_settings |->
                                 user_config.notification_settings,
                             searches |-> user_config.searches]>>
                   /\ ui' = 1
                   /\ si' = 1
    /\ UNCHANGED <<store, env, now, hist, dIn, dOut, lastCmd>>

\* One iteration of "for search_config in enabled_searches": the lookup and
\* the immediate message
ManualSearch ==
    /\ pc = "manual"
    /\ si <= Len(enabled_searches(user_configs[ui]))
    /\ \E result \in Results(enabled_searches(user_configs[ui])[si].name),
          tg_ok \in BOOLEAN :
          lastCheck' =
              [NoCheck EXCEPT
                  !.kind = result.kind,
                  !.user = user_configs[ui].user_id,
                  !.name = result.search_name,
                  !.error = result.error,
                  !.has = result.has_availabilities,
                  !.out = Outcome(NoDecision, Null, "manual",
                                  IF result.has_availabilities THEN "found"
                                  ELSE IF result.kind = "error" THEN "error"
                                  ELSE "none",
                                  ManualSend(result, tg_ok))]
    /\ si' = si + 1
    /\ UNCHANGED <<store, env, now, pc, user_configs, ui, hist, dIn, dOut,
                   lastCmd>>

\* The summary message is sent and the handler returns
EndManual ==
    /\ pc = "manual"
    /\ si > Len(enabled_searches(user_configs[ui]))
    /\ pc' = "idle"
    /\ user_configs' = <<>>
    /\ ui' = 0
    /\ si' = 0
    /\ lastCheck' = NoCheck
    /\ UNCHANGED <<store, env, now, hist, dIn, dOut, lastCmd>>

NextManual ==
    \/ StartManual
    \/ ManualSearch
    \/ EndManual

\* Scheduled passes and manual checks
SpecChecks == (Init \/ InitOneUser) /\ [][Next \/ NextManual]_vars

-----------------------------------------------------------------------------
(* The bot's commands on the configuration store                            *)
(* (src/src/telegram_bot/telegram_handler.py).  A date is a day number, -1  *)
(* a text that strptime rejects; a missing argument is the empty name.      *)

\* The last day a command can name
MaxDay == 3

lower_Identity(s) == s

\* str.lower() on the search names used here
lower(s) ==
    CASE s = "A" -> "a"
      [] s = "B" -> "b"
      [] OTHER -> s

default_config_PushoverOn ==
    [notification_settings |->
         [telegram_enabled |-> TRUE, pushover_enabled |-> TRUE],
     searches |-> <<>>]

\* The configuration created for a user without a stored document
default_config ==
    [notification_settings |->
         [telegram_enabled |-> TRUE, pushover_enabled |-> FALSE],
     searches |-> <<>>]

save_user_config_SharedKey(s3, user_id, config, put_ok) ==
    [ok |-> put_ok,
     s3 |-> IF put_ok THEN [u \in DOMAIN s3 |-> config] ELSE s3,
     writes |-> <<[doc |-> "config", ok |-> put_ok, config |-> config]>>]

\* The bot's save_user_config: whether put_object succeeded, the store after
save_user_config(s3, user_id, config, put_ok) ==
    [ok |-> put_ok,
     s3 |-> IF put_ok THEN [s3 EXCEPT ![user_id] = config] ELSE s3,
     writes |-> <<[doc |-> "config", ok |-> put_ok, config |-> config]>>]

\* The bot's load_user_config: the configuration (Null on a read error), the
\* store after the call and the put_object calls made
load_user_config(s3, user_id, get_ok, put_ok) ==
    IF ~get_ok THEN [config |-> Null, s3 |-> s3, writes |-> <<>>]
    ELSE IF s3[user_id] = Null
    THEN [config |-> default_config,
          s3 |-> save_user_config(s3, user_id, default_config, put_ok).s3,
          writes |-> <<[doc |-> "default", ok |-> put_ok,
                        config |-> default_config]>>]
    ELSE [config |-> s3[user_id], s3 |-> s3, writes |-> <<>>]

Reply(kind, text) == [kind |-> kind, text |-> text]

\* What a command did: the store after it, the reply sent, the put_object
\* calls made and the configuration given to the final save (Null when none)
CommandResult(s3, reply, writes, config) ==
    [s3 |-> s3, reply |-> reply, writes |-> writes, config |-> config]

save_reply_AlwaysSuccess(saved, success_text, error_text) ==
    Reply("success", success_text)

\* "if save_user_config(...): <success message> else: <error message>"
save_reply(saved, success_text, error_text) ==
    IF saved THEN Reply("success", success_text)
    ELSE Reply("error", error_text)

\* The final save of a command and the reply that depends on it
SaveAndReply(loaded, user_id, config, put_ok, success_text, error_text) ==
    LET saved == save_user_config(loaded.s3, user_id, config, put_ok)
    IN  CommandResult(saved.s3, save_reply(saved.ok, success_text, error_text),
                      loaded.writes \o saved.writes, config)

ValidDates_AllowsEqual(start_date, end_date, today) ==
    /\ start_date # -1
    /\ start_date <= end_date
    /\ start_date >= today

\* The date validation of /add: both dates parse, start before end, start not
\* before today
ValidDates(start_date, end_date, today) ==
    /\ start_date # -1
    /\ ~(start_date >= end_date)
    /\ ~(start_date < today)

new_search_InclusiveNights(search_name, start_date, end_date) ==
    [name |-> search_name, enabled |-> TRUE,
     nights |-> end_date - start_date + 1,
     last_availability_state |-> Null]

\* The record /add appends (the fields the model follows)
new_search(search_name, start_date, end_date) ==
    [name |-> search_name, enabled |-> TRUE,
     nights |-> end_date - start_date,
     last_availability_state |-> Null]

\* The positions of the searches whose name equals search_name ignoring case
Matching(searches, search_name) ==
    {i \in 1..Len(searches) : lower(searches[i].name) = lower(search_name)}

\* /add: validation, the duplicate check, then append and save
handle_add_command(s3, user_id, search_name, start_date, end_date, park_ok, today, get_ok, put_ok) ==
    IF search_name = ""
    THEN CommandResult(s3, Reply("usage", "add_format"), <<>>, Null)
    ELSE IF ~ValidDates(start_date, end_date, today)
    THEN CommandResult(s3, Reply("error", "invalid_date"), <<>>, Null)
    ELSE IF ~park_ok
    THEN CommandResult(s3, Reply("error", "invalid_park"), <<>>, Null)
    ELSE LET loaded == load_user_config(s3, user_id, get_ok, put_ok)
         IN  IF loaded.config = Null
             THEN CommandResult(loaded.s3, Reply("error", "load_error"),
                                loaded.writes, Null)
             ELSE IF Matching(loaded.config.searches, search_name) # {}
             THEN CommandResult(loaded.s3, Reply("error", "duplicate"),
                                loaded.writes, Null)
             ELSE SaveAndReply(loaded, user_id,
                      [loaded.config EXCEPT !.searches =
                           Append(@, new_search(search_name, start_date, end_date))],
                      put_ok, "added", "save_error")

toggle_DisablesOnly(s3, user_id, search_name, get_ok, put_ok) ==
    IF search_name = ""
    THEN CommandResult(s3, Reply("usage", "toggle_usage"), <<>>, Null)
    ELSE LET loaded == load_user_config(s3, user_id, get_ok, put_ok)
         IN  IF loaded.config = Null
             THEN CommandResult(loaded.s3, Reply("error", "load_error"),
                                loaded.writes, Null)
             ELSE LET hits == Matching(loaded.config.searches, search_name)
                  IN  IF hits = {}
                      THEN CommandResult(loaded.s3, Reply("error", "not_found"),
                                         loaded.writes, Null)
                      ELSE LET k == CHOOSE i \in hits : \A j \in hits : i <= j
                           IN  SaveAndReply(loaded, user_id,
                                   [loaded.config EXCEPT !.searches[k].enabled = FALSE],
                                   put_ok, "toggled", "save_error")

toggle_ResetsState(s3, user_id, search_name, get_ok, put_ok) ==
    IF search_name = ""
    THEN CommandResult(s3, Reply("usage", "toggle_usage"), <<>>, Null)
    ELSE LET loaded == load_user_config(s3, user_id, get_ok, put_ok)
         IN  IF loaded.config = Null
             THEN CommandResult(loaded.s3, Reply("error", "load_error"),
                                loaded.writes, Null)
             ELSE LET hits == Matching(loaded.config.searches, search_name)
                  IN  IF hits = {}
                      THEN CommandResult(loaded.s3, Reply("error", "not_found"),
                                         loaded.writes, Null)
                      ELSE LET k == CHOOSE i \in hits : \A j \in hits : i <= j
                           IN  SaveAndReply(loaded, user_id,
                                   [loaded.config EXCEPT
                                        !.searches[k].enabled = ~@,
                                        !.searches[k].last_availability_state = Null],
                                   put_ok, "toggled", "save_error")

\* The first search that matches is flipped and the configuration saved
handle_toggle_command(s3, user_id, search_name, get_ok, put_ok) ==
    IF search_name = ""
    THEN CommandResult(s3, Reply("usage", "toggle_usage"), <<>>, Null)
    ELSE LET loaded == load_user_config(s3, user_id, get_ok, put_ok)
         IN  IF loaded.config = Null
             THEN CommandResult(loaded.s3, Reply("error", "load_error"),
                                loaded.writes, Null)
             ELSE LET hits == Matching(loaded.config.searches, search_name)
                  IN  IF hits = {}
                      THEN CommandResult(loaded.s3, Reply("error", "not_found"),
                                         loaded.writes, Null)
                      ELSE LET k == CHOOSE i \in hits : \A j \in hits : i <= j
                           IN  SaveAndReply(loaded, user_id,
                                   [loaded.config EXCEPT !.searches[k].enabled = ~@],
                                   put_ok, "toggled", "save_error")

delete_CaseSensitive(s3, user_id, search_name, get_ok, put_ok) ==
    IF search_name = ""
    THEN CommandResult(s3, Reply("usage", "delete_usage"), <<>>, Null)
    ELSE LET loaded == load_user_config(s3, user_id, get_ok, put_ok)
         IN  IF loaded.config = Null
             THEN CommandResult(loaded.s3, Reply("error", "load_error"),
                                loaded.writes, Null)
             ELSE LET kept == SelectSeq(loaded.config.searches,
                                        LAMBDA q : q.name # search_name)
                  IN  IF Len(kept) < Len(loaded.config.searches)
                      THEN SaveAndReply(loaded, user_id,
                               [loaded.config EXCEPT !.searches = kept],
                               put_ok, "deleted", "save_error")
                      ELSE CommandResult(loaded.s3, Reply("error", "not_found"),
                                         loaded.writes, Null)

\* Every search that matches is removed and the configuration saved
handle_delete_command(s3, user_id, search_name, get_ok, put_ok) ==
    IF search_name = ""
    THEN CommandResult(s3, Reply("usage", "delete_usage"), <<>>, Null)
    ELSE LET loaded == load_user_config(s3, user_id, get_ok, put_ok)
         IN  IF loaded.config = Null
             THEN CommandResult(loaded.s3, Reply("error", "load_error"),
                                loaded.writes, Null)
             ELSE LET kept == SelectSeq(loaded.config.searches,
                                  LAMBDA q : lower(q.name) # lower(search_name))
                  IN  IF Len(kept) < Len(loaded.config.searches)
                      THEN SaveAndReply(loaded, user_id,
                               [loaded.config EXCEPT !.searches = kept],
                               put_ok, "deleted", "save_error")
                      ELSE CommandResult(loaded.s3, Reply("error", "not_found"),
                                         loaded.writes, Null)

delete_all_ResetsSettings(s3, user_id, get_ok, put_ok) ==
    LET loaded == load_user_config(s3, user_id, get_ok, put_ok)
    IN  IF loaded.config = Null
        THEN CommandResult(loaded.s3, Reply("error", "load_error"),
                           loaded.writes, Null)
        ELSE IF loaded.config.searches = <<>>
        THEN CommandResult(loaded.s3, Reply("error", "nothing_to_delete"),
                           loaded.writes, Null)
        ELSE SaveAndReply(loaded, user_id, default_config,
                          put_ok, "deleted_all", "save_error")

handle_delete_all_command(s3, user_id, get_ok, put_ok) ==
    LET loaded == load_user_config(s3, user_id, get_ok, put_ok)
    IN  IF loaded.config = Null
        THEN CommandResult(loaded.s3, Reply("error", "load_error"),
                           loaded.writes, Null)
        ELSE IF loaded.config.searches = <<>>
        THEN CommandResult(loaded.s3, Reply("error", "nothing_to_delete"),
                           loaded.writes, Null)
        ELSE SaveAndReply(loaded, user_id,
                          [loaded.config EXCEPT !.searches = <<>>],
                          put_ok, "deleted_all", "save_error")

\* /list: reads the configuration and replies with the searches
handle_list_command(s3, user_id, get_ok, put_ok) ==
    LET loaded == load_user_config(s3, user_id, get_ok, put_ok)
    IN  IF loaded.config = Null
        THEN CommandResult(loaded.s3, Reply("error", "load_error"),
                           loaded.writes, Null)
        ELSE IF loaded.config.searches = <<>>
        THEN CommandResult(loaded.s3, Reply("info", "no_searches"),
                           loaded.writes, Null)
        ELSE CommandResult(loaded.s3, Reply("info", "list"),
                           loaded.writes, Null)

\* The users who send commands, the names and the dates they type
BotUsers == {"u1"}

BotNames == {"A", "a", "B", ""}

StartDates == (-1)..(MaxDay - 1)

EndDates == 1..MaxDay

Todays == 1..(MaxDay - 2)

\* u1 has no document yet or one search with a stored availability state and
\* both channels enabled; u2 has one search and the default settings
InitBot ==
    /\ store \in
         {[u \in UserIds |->
              IF u = "u1" THEN doc
              ELSE [default_config EXCEPT !.searches =
                        <<new_search("B", 1, 2)>>]] :
          doc \in {Null,
                   [notification_settings |->
                        [telegram_enabled |-> TRUE, pushover_enabled |-> TRUE],
                    searches |->
                        <<[new_search("A", 1, 2) EXCEPT
                              !.last_availability_state =
                                  [has_sites |-> TRUE, site_count |-> 3,
                                   last_checked |-> 0]]>>]}}
    /\ env = [bot_token |-> TRUE, pushover_keys |-> TRUE]
    /\ now = 0
    /\ pc = "bot"
    /\ user_configs = <<>>
    /\ ui = 0
    /\ si = 0
    /\ lastCheck = NoCheck
    /\ hist = NoHistory
    /\ dIn = Null
    /\ dOut = Null
    /\ lastCmd = NoCmd

\* A command is handled by an invocation of its own: the store after it and
\* the record of what it did
Handled(op, user_id, search_name, start_date, end_date, park_ok, today, get_ok, put_ok, done) ==
    /\ lastCmd = NoCmd
    /\ store' = done.s3
    /\ lastCmd' = [op |-> op, user |-> user_id, name |-> search_name,
                   start_date |-> start_date, end_date |-> end_date,
                   park_ok |-> park_ok, today |-> today,
                   get_ok |-> get_ok, put_ok |-> put_ok,
                   before |-> store[user_id],
                   reply |-> done.reply, writes |-> done.writes,
                   config |-> done.config]
    /\ UNCHANGED <<env, now, pc, user_configs, ui, si, lastCheck, hist,
                   dIn, dOut>>

AddCommand ==
    /\ pc = "bot"
    /\ \E user_id \in BotUsers, search_name \in BotNames,
          start_date \in StartDates, end_date \in EndDates,
          park_ok \in BOOLEAN, today \in Todays,
          get_ok \in BOOLEAN, put_ok \in BOOLEAN :
          Handled("add", user_id, search_name, start_date, end_date, park_ok,
                  today, get_ok, put_ok,
                  handle_add_command(store, user_id, search_name, start_date,
                                     end_date, park_ok, today, get_ok, put_ok))

ToggleCommand ==
    /\ pc = "bot"
    /\ \E user_id \in BotUsers, search_name \in BotNames,
          get_ok \in BOOLEAN, put_ok \in BOOLEAN :
          Handled("toggle", user_id, search_name, 0, 0, TRUE, 0, get_ok, put_ok,
                  handle_toggle_command(store, user_id, search_name,
                                        get_ok, put_ok))

DeleteCommand ==
    /\ pc = "bot"
    /\ \E user_id \in BotUsers, search_name \in BotNames,
          get_ok \in BOOLEAN, put_ok \in BOOLEAN :
          Handled("delete", user_id, search_name, 0, 0, TRUE, 0, get_ok, put_ok,
                  handle_delete_command(store, user_id, search_name,
                                        get_ok, put_ok))

DeleteAllCommand ==
    /\ pc = "bot"
    /\ \E user_id \in BotUsers, get_ok \in BOOLEAN, put_ok \in BOOLEAN :
          Handled("delete_all", user_id, "", 0, 0, TRUE, 0, get_ok, put_ok,
                  handle_delete_all_command(store, user_id, get_ok, put_ok))

ListCommand ==
    /\ pc = "bot"
    /\ \E user_id \in BotUsers, get_ok \in BOOLEAN, put_ok \in BOOLEAN :
          Handled("list", user_id, "", 0, 0, TRUE, 0, get_ok, put_ok,
                  handle_list_command(store, user_id, get_ok, put_ok))

\* The invocation that handled the command returns
EndCommand ==
    /\ pc = "bot"
    /\ lastCmd # NoCmd
    /\ lastCmd' = NoCmd
    /\ UNCHANGED <<store, env, now, pc, user_configs, ui, si, lastCheck, hist,
                   dIn, dOut>>

NextBot ==
    \/ AddCommand
    \/ ToggleCommand
    \/ DeleteCommand
    \/ DeleteAllCommand
    \/ ListCommand
    \/ EndCommand

SpecBot == InitBot /\ [][NextBot]_vars

\* The scheduled pass and the bot's commands, each from its own start
SpecStore == (Init \/ InitBot) /\ [][Next \/ NextBot]_vars

-----------------------------------------------------------------------------
(* Overlapping invocations: two state writes of the checker and one bot     *)
(* command on the document of one user.  Each reads the whole document     *)
(* with get_object and later puts the whole document back.                 *)

\* An invocation of update_search_availability_state before its load
Writer(search_name, new_state) ==
    [pc |-> "start", search_name |-> search_name, new_state |-> new_state,
     config |-> Null, ok |-> FALSE]

\* A command before its load ("none": no command is sent)
Command(op, search_name) ==
    [pc |-> IF op = "none" THEN "none" ELSE "start", op |-> op,
     name |-> search_name, config |-> Null, reply |-> Reply("none", "none")]

OverlapCommands ==
    {Command("none", ""), Command("add", "B"), Command("toggle", "A"),
     Command("toggle", "C"), Command("delete", "A"), Command("delete", "C"),
     Command("delete_all", "")}

\* u1 has the searches A and C, not yet checked; the first write is for A or
\* C, the second for A or C
InitOverlap ==
    /\ store = [u \in UserIds |->
                   IF u = "u1"
                   THEN [notification_settings |->
                             [telegram_enabled |-> TRUE, pushover_enabled |-> TRUE],
                         searches |-> <<new_search("A", 1, 2),
                                        new_search("C", 1, 2)>>]
                   ELSE Null]
    /\ env = [bot_token |-> TRUE, pushover_keys |-> TRUE]
    /\ now = 1
    /\ pc = "overlap"
    /\ user_configs = <<>>
    /\ ui = 0
    /\ si = 0
    /\ lastCheck = NoCheck
    /\ hist = NoHistory
    /\ lastCmd = NoCmd
    /\ dIn \in {[w1 |-> Writer(n1, [has_sites |-> TRUE, site_count |-> 3,
                                     last_checked |-> 1]),
                  w2 |-> Writer(n2, [has_sites |-> h2,
                                     site_count |-> IF h2 THEN 5 ELSE 0,
                                     last_checked |-> 1]),
                  cmd |-> c] :
                   n1 \in {"A", "C"}, n2 \in {"A", "C"}, h2 \in BOOLEAN,
                   c \in OverlapCommands}
    /\ dOut = Null

\* update_search_availability_state, "config = load_user_config(...)"
WriterLoad(w) ==
    /\ pc = "overlap"
    /\ dIn[w].pc = "start"
    /\ dIn' = [dIn EXCEPT ![w].config = store["u1"],
                          ![w].pc = IF store["u1"] = Null THEN "done"
                                    ELSE "loaded"]
    /\ UNCHANGED <<dOut, passVars>>

\* update_search_availability_state from the loop to
\* "return save_user_config(bucket_name, user_id, config)": the loaded
\* document, with the state of the named search set, replaces the stored one
WriterSave(w) ==
    /\ pc = "overlap"
    /\ dIn[w].pc = "loaded"
    /\ store' = [store EXCEPT !["u1"] =
                     update_search_availability_state(
                         [store EXCEPT !["u1"] = dIn[w].config], "u1",
                         dIn[w].search_name, dIn[w].new_state)["u1"]]
    /\ dIn' = [dIn EXCEPT ![w].pc = "done", ![w].ok = TRUE]
    /\ UNCHANGED <<env, now, pc, user_configs, ui, si, lastCheck, hist,
                   lastCmd, dOut>>

\* The command's "config = load_user_config(bucket_name, user_id)"
CommandLoad ==
    /\ pc = "overlap"
    /\ dIn.cmd.pc = "start"
    /\ \E get_ok \in BOOLEAN :
          \E loaded \in {load_user_config(store, "u1", get_ok, TRUE)} :
             /\ store' = loaded.s3
             /\ dIn' = [dIn EXCEPT
                           !.cmd.config = loaded.config,
                           !.cmd.pc = IF loaded.config = Null THEN "done"
                                      ELSE "loaded",
                           !.cmd.reply = IF loaded.config = Null
                                         THEN Reply("error", "load_error")
                                         ELSE @]
    /\ UNCHANGED <<env, now, pc, user_configs, ui, si, lastCheck, hist,
                   lastCmd, dOut>>

\* The handler of the command, run on the document it loaded
RunCommand(cmd, s3, put_ok) ==
    CASE cmd.op = "add" ->
             handle_add_command(s3, "u1", cmd.name, 1, 2, TRUE, 1, TRUE, put_ok)
      [] cmd.op = "toggle" ->
             handle_toggle_command(s3, "u1", cmd.name, TRUE, put_ok)
      [] cmd.op = "delete" ->
             handle_delete_command(s3, "u1", cmd.name, TRUE, put_ok)
      [] cmd.op = "delete_all" ->
             handle_delete_all_command(s3, "u1", TRUE, put_ok)

\* The rest of the command: the change of the loaded document, the
\* save_user_config call that puts it and the reply
CommandSave ==
    /\ pc = "overlap"
    /\ dIn.cmd.pc = "loaded"
    /\ \E put_ok \in BOOLEAN :
          \E done \in {RunCommand(dIn.cmd,
                                  [store EXCEPT !["u1"] = dIn.cmd.config],
                                  put_ok)} :
             /\ store' = IF done.config # Null /\ put_ok
                         THEN [store EXCEPT !["u1"] = done.config]
                         ELSE store
             /\ dIn' = [dIn EXCEPT !.cmd.pc = "done",
                                   !.cmd.reply = done.reply]
    /\ UNCHANGED <<env, now, pc, user_configs, ui, si, lastCheck, hist,
                   lastCmd, dOut>>

NextOverlap ==
    \/ \E w \in {"w1", "w2"} : WriterLoad(w)
    \/ \E w \in {"w1", "w2"} : WriterSave(w)
    \/ CommandLoad
    \/ CommandSave

SpecOverlap == InitOverlap /\ [][NextOverlap]_vars

-----------------------------------------------------------------------------
(* Properties *)

NotifyReasons ==
    {"first_availability_found", "new_availability", "significant_increase"}

\* The last iteration checked a search whose lookup succeeded
CheckedOk == lastCheck.kind = "ok"

\* The last iteration checked a search whose lookup failed
CheckedError == lastCheck.kind = "error"

\* The state the store now holds for the search of the last iteration
StoredNow == StoredState(store, lastCheck.user, lastCheck.name)

Occurrences(q, c) == Cardinality({i \in 1..Len(q) : q[i] = c})

\* The error texts the error-classification filter calls transient
TransientErrorTexts == {"HTTP 429: Too Many Requests"}

\* The channels enabled in the stored settings of the last iteration's user
EnabledChannels ==
    LET ns == store[lastCheck.user].notification_settings
    IN  {c \in {"telegram", "pushover"} :
            \/ c = "telegram" /\ ns.telegram_enabled
            \/ c = "pushover" /\ ns.pushover_enabled}

\* Those of them whose credentials are set in the environment
UsableChannels ==
    {c \in EnabledChannels :
        \/ c = "telegram" /\ env.bot_token
        \/ c = "pushover" /\ env.pushover_keys}

\* C1: should_notify_availability_change follows the transition table: no
\* previous state and sites -> (true, first_availability_found); no previous
\* state and no sites -> (false, no_availability); had none and sites ->
\* (true, new_availability); had sites and none now -> (false,
\* availability_disappeared); had none and none now -> (false,
\* no_availability); and it notifies only with one of the three notify reasons.
C1_TransitionTable ==
    dOut # Null =>
        LET prev == dIn.last_state
            cur == dIn.result.has_availabilities
        IN  /\ (prev = Null /\ cur) =>
                   (dOut.notify /\ dOut.reason = "first_availability_found")
            /\ (prev = Null /\ ~cur) =>
                   (~dOut.notify /\ dOut.reason = "no_availability")
            /\ (prev # Null /\ ~prev.has_sites /\ cur) =>
                   (dOut.notify /\ dOut.reason = "new_availability")
            /\ (prev # Null /\ prev.has_sites /\ ~cur) =>
                   (~dOut.notify /\ dOut.reason = "availability_disappeared")
            /\ (prev # Null /\ ~prev.has_sites /\ ~cur) =>
                   (~dOut.notify /\ dOut.reason = "no_availability")
            /\ dOut.notify => dOut.reason \in NotifyReasons

\* A call with a previous state that had sites and a current result without
C1_Witness ==
    /\ dOut # Null
    /\ dIn.last_state # Null
    /\ dIn.last_state.has_sites
    /\ ~dIn.result.has_availabilities
    /\ dOut.reason = "availability_disappeared"

C3_NoRepeatNotification ==
    (CheckedOk /\ lastCheck.has /\ lastCheck.last_avail_before = lastCheck.count) =>
        (lastCheck.out.attempts = <<>> /\ lastCheck.out.delivered = <<>>)

\* Two consecutive checks of a search reported the same positive count
C3_Witness ==
    /\ CheckedOk
    /\ lastCheck.has
    /\ lastCheck.count > 0
    /\ lastCheck.last_avail_before = lastCheck.count

\* C4: a check that finds none for a search that had sites sends nothing and
\* leaves has_sites=false in the store; the next check of that search that
\* finds sites decides to notify with reason new_availability.
C4_DisappearThenNew ==
    /\ (CheckedOk /\ ~lastCheck.has /\ lastCheck.stored_before # Null
            /\ lastCheck.stored_before.has_sites) =>
           /\ lastCheck.out.attempts = <<>>
           /\ StoredNow # Null
           /\ ~StoredNow.has_sites
    /\ (CheckedOk /\ lastCheck.has /\ lastCheck.gone_before) =>
           (lastCheck.out.notify /\ lastCheck.out.reason = "new_availability")

\* Sites found again after a disappearance
C4_Witness ==
    /\ CheckedOk
    /\ lastCheck.has
    /\ lastCheck.gone_before
    /\ lastCheck.out.reason = "new_availability"

\* C5 as stated: every check whose lookup succeeded leaves the store holding
\* the current snapshot with last_checked set by this check.
C5_Original ==
    CheckedOk =>
        StoredNow = [has_sites |-> lastCheck.has, site_count |-> lastCheck.count,
                     last_checked |-> now]

\* C5 amended: after every check whose lookup succeeded the stored state has
\* the snapshot's has_sites and site_count, notification or not; it was written
\* by this check (fresh last_checked) except when the check finds no
\* availability and the stored state already had has_sites=false, where
\* nothing is written and the stored state is the one from before.
C5_Amended ==
    CheckedOk =>
        /\ StoredNow # Null
        /\ StoredNow.has_sites = lastCheck.has
        /\ StoredNow.site_count = lastCheck.count
        /\ IF ~lastCheck.has /\ lastCheck.stored_before # Null
              /\ ~lastCheck.stored_before.has_sites
           THEN StoredNow = lastCheck.stored_before
           ELSE StoredNow.last_checked = now

\* A no-availability check over a stored has_sites=false of an earlier pass
C5_Witness ==
    /\ CheckedOk
    /\ ~lastCheck.has
    /\ lastCheck.stored_before # Null
    /\ ~lastCheck.stored_before.has_sites
    /\ lastCheck.stored_before.last_checked < now

\* C6: every availability state returned by should_notify_availability_change
\* or held by the store has site_count = 0 when has_sites is false.
C6_CountZeroWithoutSites ==
    /\ \A u \in DOMAIN store : \A i \in 1..Len(store[u].searches) :
          LET st == store[u].searches[i].last_availability_state
          IN  (st # Null /\ ~st.has_sites) => st.site_count = 0
    /\ (dOut # Null /\ ~dOut.new_state.has_sites) => dOut.new_state.site_count = 0

\* The store holds a has_sites=false state written after the search had sites
C6_Witness ==
    /\ CheckedOk
    /\ lastCheck.stored_before # Null
    /\ lastCheck.stored_before.has_sites
    /\ lastCheck.stored_before.site_count > 0
    /\ StoredNow # Null
    /\ ~StoredNow.has_sites

\* C7 as stated: a check that fails with a transient error sends no
\* notification for that search.
C7_TransientErrorSilent ==
    (CheckedError /\ lastCheck.error \in TransientErrorTexts) =>
        lastCheck.out.delivered = <<>>

\* C8: an iteration whose result is an error leaves the whole store unchanged.
C8_ErrorLeavesStore ==
    [][(InLoop /\ lastCheck'.kind = "error") => store' = store]_vars

\* An error result for a search that already has a stored state
C8_Witness ==
    /\ CheckedError
    /\ lastCheck.stored_before # Null
    /\ StoredNow = lastCheck.stored_before

\* C9 as stated: every non-transient error result leads to an error-tagged
\* notification attempt.
C9_Original ==
    (CheckedError /\ lastCheck.error \notin TransientErrorTexts) =>
        (lastCheck.out.tag = "error" /\ lastCheck.out.attempts # <<>>)

\* C9 amended: every non-transient error result leads, in the same pass, to one
\* error-tagged request on each channel that is enabled for the user and has
\* its credentials set (to none when there is no such channel), whatever the
\* earlier checks of the search were.
C9_Amended ==
    (CheckedError /\ lastCheck.error \notin TransientErrorTexts) =>
        /\ lastCheck.out.tag = "error"
        /\ \A c \in {"telegram", "pushover"} :
              Occurrences(lastCheck.out.attempts, c) =
                  IF c \in UsableChannels THEN 1 ELSE 0

\* The same search failed in the check before, and the error is sent again
C9_Witness ==
    /\ CheckedError
    /\ lastCheck.error \notin TransientErrorTexts
    /\ lastCheck.error_before
    /\ lastCheck.out.attempts = <<"telegram", "pushover">>

\* C10 as stated: at most one notification is sent for a search in a pass.
C10_Original == Len(lastCheck.out.delivered) <= 1

\* C10 amended: for a search in a pass, at most one notification is sent on
\* each channel and only on channels enabled for the user: at most two in
\* all, at most one when at most one channel is enabled.
C10_Amended ==
    lastCheck.kind \in {"ok", "error"} =>
        /\ \A c \in {"telegram", "pushover"} :
              /\ Occurrences(lastCheck.out.delivered, c) <= 1
              /\ Occurrences(lastCheck.out.delivered, c) = 1 => c \in EnabledChannels
        /\ Len(lastCheck.out.delivered) <= Cardinality(EnabledChannels)

\* An availability notification delivered on the only enabled channel
C10_Witness ==
    /\ CheckedOk
    /\ EnabledChannels = {"pushover"}
    /\ lastCheck.out.delivered = <<"pushover">>



\* C11: in a scheduled pass, whatever the lookup of the current search returns
\* (an error included) and whether or not its notification is delivered, the
\* pass goes on: the current search, when enabled, is checked and the loop
\* moves to the next search of the same user or to the next user's first one.
C11_FailureIsolation ==
    [][InLoop =>
          /\ pc' = "running"
          /\ user_configs' = user_configs
          /\ <<ui', si'>> = IF si < Len(user_configs[ui].searches)
                            THEN <<ui, si + 1>> ELSE <<ui + 1, 1>>
          /\ Current.enabled =>
                 /\ lastCheck'.kind \in {"ok", "error"}
                 /\ lastCheck'.user = user_configs[ui].user_id
                 /\ lastCheck'.name = Current.name]_vars

\* The user's search C is checked in a pass in which the lookup of their
\* search A failed
C11_Witness ==
    /\ lastCheck.kind \in {"ok", "error"}
    /\ lastCheck.user = "u1"
    /\ lastCheck.name = "C"
    /\ hist[<<"u1", "A">>].last_error

\* C12: when a notification is requested and not delivered, the state of that
\* check is in the store; the next check of the search reads it as its
\* previous state.
C12_NoRollback ==
    /\ (CheckedOk /\ lastCheck.out.attempts # lastCheck.out.delivered) =>
           /\ lastCheck.out.new_state # Null
           /\ StoredNow = lastCheck.out.new_state
    /\ (CheckedOk /\ lastCheck.failed_before) =>
           /\ lastCheck.prev # Null
           /\ lastCheck.prev = lastCheck.stored_before
           /\ lastCheck.prev.has_sites
           /\ lastCheck.prev.site_count = lastCheck.last_avail_before

\* A check finds the count whose notification failed in the check before
C12_Witness ==
    /\ CheckedOk
    /\ lastCheck.failed_before
    /\ lastCheck.has
    /\ lastCheck.count = lastCheck.last_avail_before
    /\ lastCheck.out.reason = "availability_unchanged"

\* The last iteration checked the only enabled search of a user, with no
\* stored state, and the lookup reported three sites
FirstCheckWithThreeSites ==
    /\ CheckedOk
    /\ Cardinality({i \in 1..Len(store[lastCheck.user].searches) :
                       store[lastCheck.user].searches[i].enabled}) = 1
    /\ lastCheck.stored_before = Null
    /\ lastCheck.prev = Null
    /\ lastCheck.has
    /\ lastCheck.count = 3

\* C13 as stated: such a check sends exactly one notification, tagged
\* first_availability_found, and leaves has_sites=true, site_count=3 stored.
C13_Original ==
    FirstCheckWithThreeSites =>
        /\ Len(lastCheck.out.delivered) = 1
        /\ lastCheck.out.tag = "first_availability_found"
        /\ StoredNow # Null
        /\ StoredNow.has_sites
        /\ StoredNow.site_count = 3

\* C13 amended: such a check decides to notify with first_availability_found,
\* requests one message with that tag on each enabled channel whose credentials
\* are set (Telegram, then Pushover), delivers at most those, and leaves
\* has_sites=true, site_count=3 stored.
C13_Amended ==
    FirstCheckWithThreeSites =>
        /\ lastCheck.out.notify
        /\ lastCheck.out.reason = "first_availability_found"
        /\ lastCheck.out.tag = "first_availability_found"
        /\ lastCheck.out.attempts =
               (IF "telegram" \in UsableChannels THEN <<"telegram">> ELSE <<>>)
                   \o (IF "pushover" \in UsableChannels THEN <<"pushover">> ELSE <<>>)
        /\ \A c \in {"telegram", "pushover"} :
               Occurrences(lastCheck.out.delivered, c)
                   <= Occurrences(lastCheck.out.attempts, c)
        /\ StoredNow = [has_sites |-> TRUE, site_count |-> 3, last_checked |-> now]

\* The default settings, the bot token set: the one notification is delivered
C13_Witness ==
    /\ FirstCheckWithThreeSites
    /\ lastCheck.user = "u2"
    /\ lastCheck.out.delivered = <<"telegram">>

\* Two names are equal ignoring case
EqualIgnoringCase(a, b) ==
    \/ a = b
    \/ {a, b} = {"A", "a"}
    \/ {a, b} = {"B", "b"}

\* The searches of a stored document; a user without one has none
SearchesOf(doc) == IF doc = Null THEN <<>> ELSE doc.searches

\* The positions of the searches the command's name matches ignoring case, in
\* the configuration the command found
NamedBefore ==
    {i \in 1..Len(SearchesOf(lastCmd.before)) :
        EqualIgnoringCase(SearchesOf(lastCmd.before)[i].name, lastCmd.name)}

\* The store served the command's read and accepted its write
StoreWorked == lastCmd.get_ok /\ lastCmd.put_ok

\* C14: add fails and leaves the user's list of searches as it was whenever
\* start_date >= end_date, or start_date is before today, or the user has a
\* search whose name equals the new name ignoring case.
C14_AddRejects ==
    (/\ lastCmd.op = "add"
     /\ \/ lastCmd.start_date >= lastCmd.end_date
        \/ lastCmd.start_date < lastCmd.today
        \/ NamedBefore # {}) =>
        /\ lastCmd.reply.kind # "success"
        /\ SearchesOf(store[lastCmd.user]) = SearchesOf(lastCmd.before)

\* An add with valid dates and park is refused for a name that differs only
\* in case from a stored one
C14_Witness ==
    /\ lastCmd.op = "add"
    /\ lastCmd.start_date >= lastCmd.today
    /\ lastCmd.start_date < lastCmd.end_date
    /\ lastCmd.park_ok
    /\ NamedBefore # {}
    /\ \A i \in NamedBefore : lastCmd.before.searches[i].name # lastCmd.name
    /\ lastCmd.reply = Reply("error", "duplicate")

\* C15: no two searches of one user have names that are equal ignoring case.
C15_UniqueNames ==
    \A u \in UserIds :
        \A i, j \in 1..Len(SearchesOf(store[u])) :
            i # j => ~EqualIgnoringCase(store[u].searches[i].name,
                                        store[u].searches[j].name)

\* After a delete and two adds the user has two searches, the first one
\* spelled in lower case
C15_Witness ==
    /\ lastCmd.op = "add"
    /\ lastCmd.reply.kind = "success"
    /\ Len(store["u1"].searches) = 2
    /\ store["u1"].searches[1].name = "a"

\* C16: a successful add leaves the user's list equal to the list before with
\* one search appended: the given name, enabled, no availability state,
\* nights = end_date - start_date; the notification settings are unchanged.
C16_AddAppends ==
    (lastCmd.op = "add" /\ lastCmd.reply.kind = "success") =>
        /\ store[lastCmd.user] # Null
        /\ store[lastCmd.user].searches =
               Append(SearchesOf(lastCmd.before),
                      [name |-> lastCmd.name, enabled |-> TRUE,
                       nights |-> lastCmd.end_date - lastCmd.start_date,
                       last_availability_state |-> Null])
        /\ lastCmd.before # Null =>
               store[lastCmd.user].notification_settings =
                   lastCmd.before.notification_settings

\* A two-night search is added after a search that has an availability state
C16_Witness ==
    /\ lastCmd.op = "add"
    /\ lastCmd.reply.kind = "success"
    /\ lastCmd.end_date - lastCmd.start_date = 2
    /\ Len(SearchesOf(lastCmd.before)) = 1
    /\ lastCmd.before.searches[1].last_availability_state # Null

C21_CommandsKeepAvailabilityState ==
    lastCmd.op \in {"add", "list", "toggle", "delete", "delete_all"} =>
        LET before == SearchesOf(lastCmd.before)
            after == SearchesOf(store[lastCmd.user])
        IN  \A j \in 1..Len(before), i \in 1..Len(after) :
                after[i].name = before[j].name =>
                    after[i].last_availability_state =
                        before[j].last_availability_state

\* A search with a stored availability state is toggled while the user has a
\* second search, and still holds that state
C21_Witness ==
    /\ lastCmd.op = "toggle"
    /\ lastCmd.reply.kind = "success"
    /\ Len(lastCmd.before.searches) = 2
    /\ NamedBefore = {1}
    /\ lastCmd.before.searches[1].last_availability_state # Null
    /\ store[lastCmd.user].searches[1].enabled = ~lastCmd.before.searches[1].enabled
    /\ store[lastCmd.user].searches[1].last_availability_state =
           lastCmd.before.searches[1].last_availability_state

\* This step handles a command sent by user u
CommandStepOf(u) ==
    /\ lastCmd = NoCmd
    /\ lastCmd' # NoCmd
    /\ lastCmd'.user = u

\* This step is the pass's iteration for an enabled search of user u
CheckStepOf(u) ==
    /\ pc = "running"
    /\ lastCheck'.kind \in {"ok", "error"}
    /\ lastCheck'.user = u

\* C22: a step changes the stored configuration of a user only when it
\* handles a command of that user or is the pass's iteration for a search of
\* that user: no command and no state write of one user changes the document
\* of another.
C22_OtherUsersUntouched ==
    [][\A u \in UserIds :
          store'[u] # store[u] => CommandStepOf(u) \/ CheckStepOf(u)]_vars

\* u1's command changed u1's document while u2 holds a document with a search
C22_Witness ==
    /\ lastCmd.op = "add"
    /\ lastCmd.user = "u1"
    /\ lastCmd.reply.kind = "success"
    /\ store["u1"] # lastCmd.before
    /\ store["u2"] # Null
    /\ store["u2"].searches # <<>>

\* This step leaves alone every search that is disabled in the configuration
\* the running check read
DisabledUntouched ==
    \A i \in 1..Len(user_configs) :
        \A j \in 1..Len(user_configs[i].searches) :
            LET u == user_configs[i].user_id
                q == user_configs[i].searches[j]
            IN  ~q.enabled =>
                    /\ (lastCheck'.user = u /\ lastCheck'.name = q.name) =>
                           /\ lastCheck'.kind = "skipped"
                           /\ lastCheck'.out.attempts = <<>>
                    /\ hist'[<<u, q.name>>] = hist[<<u, q.name>>]
                    /\ StoredState(store', u, q.name) =
                           StoredState(store, u, q.name)

\* C23: while a check (scheduled or manual) runs, a search whose enabled
\* flag is false in the configuration the check read is never looked up or
\* notified about (no iteration is recorded for it other than the skip, and
\* its lookup history stays as it was) and its stored availability state is
\* not written.
C23_DisabledNeverChecked ==
    [][(pc \in {"running", "manual"}) => DisabledUntouched]_vars

\* After a scheduled pass has checked A, a manual check of u1 has gone from A
\* to C: the disabled B between them has no lookup and no stored state
C23_Witness ==
    /\ pc = "manual"
    /\ lastCheck.user = "u1"
    /\ lastCheck.name = "C"
    /\ lastCheck.kind = "ok"
    /\ ~user_configs[1].searches[2].enabled
    /\ user_configs[1].searches[2].name = "B"
    /\ hist[<<"u1", "A">>] # NoHistory[<<"u1", "A">>]
    /\ hist[<<"u1", "B">>] = NoHistory[<<"u1", "B">>]
    /\ StoredState(store, "u1", "A") # Null
    /\ StoredState(store, "u1", "B") = Null

\* The last command reached its load_user_config call and the store answered
LoadedConfig ==
    /\ lastCmd.op # "none"
    /\ lastCmd.get_ok
    /\ \/ lastCmd.op \in {"list", "delete_all"}
       \/ lastCmd.op \in {"toggle", "delete"} /\ lastCmd.name # ""
       \/ /\ lastCmd.op = "add"
          /\ lastCmd.reply.kind # "usage"
          /\ lastCmd.reply.text \notin {"invalid_date", "invalid_park"}

\* C24: a command that loads the configuration of a user without a stored
\* document first puts a default document: Telegram enabled, Pushover
\* disabled, no searches.  When the store takes the write the user has a
\* document with these settings, holding no search unless the command was
\* the add that appended one.
C24_DefaultCreated ==
    (LoadedConfig /\ lastCmd.before = Null) =>
        /\ lastCmd.writes # <<>>
        /\ lastCmd.writes[1].doc = "default"
        /\ lastCmd.writes[1].config =
               [notification_settings |->
                    [telegram_enabled |-> TRUE, pushover_enabled |-> FALSE],
                searches |-> <<>>]
        /\ lastCmd.put_ok =>
               /\ lastCmd.writes[1].ok
               /\ store[lastCmd.user] # Null
               /\ store[lastCmd.user].notification_settings =
                      [telegram_enabled |-> TRUE, pushover_enabled |-> FALSE]
               /\ \/ store[lastCmd.user].searches = <<>>
                  \/ /\ lastCmd.op = "add"
                     /\ lastCmd.reply.kind = "success"
                     /\ Len(store[lastCmd.user].searches) = 1

\* /list of a user without a document leaves the default document stored
C24_Witness ==
    /\ lastCmd.op = "list"
    /\ lastCmd.before = Null
    /\ lastCmd.reply = Reply("info", "no_searches")
    /\ store[lastCmd.user] =
           [notification_settings |->
                [telegram_enabled |-> TRUE, pushover_enabled |-> FALSE],
            searches |-> <<>>]

\* C25: extract_site_count_from_output returns the sum, over the lines with
\* the marker and a colon, of the site count found after the colon (the number
\* followed by whitespace and "site" in the text up to the next colon), and 0
\* for an empty report and for a report without a marked line.
C25_SumOfMarkedLines ==
    (pc = "extract" /\ dOut # Null) =>
        /\ dOut.total_sites =
               SumSeq([i \in 1..Len(dIn.lines) |-> dIn.lines[i].sites])
        /\ (\A i \in 1..Len(dIn.lines) : ~Contains(dIn.lines[i].text, "M")) =>
               dOut.total_sites = 0

\* Two marked lines with 13 and 2 sites around nothing else give 15
C25_Witness ==
    /\ pc = "extract"
    /\ dOut # Null
    /\ Len(dIn.lines) = 2
    /\ dIn.lines[1].text = ParkLine(13)
    /\ dIn.lines[2].text = ParkLine(2)
    /\ dOut.total_sites = 15

\* C26: extract_site_count_from_output returns a count for every report; in
\* a report with a marked line that has a colon but no count after it, that
\* line adds 0 and the result is the sum of the counts of the other lines.
C26_MalformedLineCountsZero ==
    (pc = "extract" /\ dOut # Null) =>
        /\ dOut.total_sites \in Nat
        /\ \A k \in 1..Len(dIn.lines) :
               dIn.lines[k].malformed =>
                   dOut.total_sites =
                       SumSeq([i \in 1..Len(dIn.lines) |->
                                  IF i = k THEN 0 ELSE dIn.lines[i].sites])

\* A marked line without a number before a line with 13 sites: 13
C26_Witness ==
    /\ pc = "extract"
    /\ dOut # Null
    /\ Len(dIn.lines) = 2
    /\ dIn.lines[1].text = <<"M", " ", "x", ":", " ", "x">>
    /\ dIn.lines[2].text = ParkLine(13)
    /\ dOut.total_sites = 13

DecisionOf(d) ==
    [notify |-> d.notify, reason |-> d.reason,
     has_sites |-> d.new_state.has_sites,
     site_count |-> d.new_state.site_count]

\* C28: the notify flag, the reason and the has_sites/site_count of the new
\* state are a function of the result's has_availabilities and extracted
\* count and of the previous state's has_sites and site_count: a call with
\* another report text of the same count and another last_checked in the
\* previous state gives the same decision.
C28_DecisionDeterminedByInputs ==
    (pc = "call" /\ dOut # Null) =>
        \A text \in DecideReports, t \in 0..MaxClock :
            LET other_result == [dIn.result EXCEPT !.camping_output = text]
                other_state == IF dIn.last_state = Null THEN Null
                               ELSE [dIn.last_state EXCEPT !.last_checked = t]
            IN  extract_site_count_from_output(text) =
                    extract_site_count_from_output(dIn.result.camping_output)
                => DecisionOf(should_notify_availability_change(
                                  other_result, other_state))
                       = DecisionOf(dOut)

\* Five sites in two parks after five sites stored at another time: the same
\* decision as for five sites in one park
C28_Witness ==
    /\ pc = "call"
    /\ dOut # Null
    /\ dIn.result.has_availabilities
    /\ dIn.result.camping_output = TwoParks(2, 3)
    /\ dIn.last_state # Null
    /\ dIn.last_state.has_sites
    /\ dIn.last_state.site_count = 5
    /\ dIn.last_state.last_checked = 1
    /\ now = 1
    /\ dOut.reason = "availability_unchanged"
    /\ DecisionOf(dOut) =
           DecisionOf(should_notify_availability_change(
                          OkResult("A", OnePark(5), TRUE),
                          [has_sites |-> TRUE, site_count |-> 5,
                           last_checked |-> 0]))

\* Both state writes have returned
WritesDone == dIn.w1.pc = "done" /\ dIn.w2.pc = "done"

\* C29: once two overlapping state writes for two different searches of one
\* user have both completed (no command being sent), each of the two
\* searches holds the state written for it.
C29_WritesDoNotInterfere ==
    (pc = "overlap" /\ dIn.cmd.op = "none" /\ WritesDone
       /\ dIn.w1.ok /\ dIn.w2.ok
       /\ dIn.w1.search_name # dIn.w2.search_name) =>
        /\ StoredState(store, "u1", dIn.w1.search_name) = dIn.w1.new_state
        /\ StoredState(store, "u1", dIn.w2.search_name) = dIn.w2.new_state

\* The stored document shows what the command did to the document it loaded
CommandReflected ==
    LET searches == store["u1"].searches
        named == {i \in 1..Len(searches) :
                     EqualIgnoringCase(searches[i].name, dIn.cmd.name)}
        k == FirstNamed(dIn.cmd.config.searches, dIn.cmd.name)
    IN  CASE dIn.cmd.op = "add" -> named # {}
          [] dIn.cmd.op = "toggle" ->
                 /\ named # {}
                 /\ \A i \in named :
                        searches[i].enabled = ~dIn.cmd.config.searches[k].enabled
          [] dIn.cmd.op = "delete" -> named = {}
          [] dIn.cmd.op = "delete_all" -> searches = <<>>

\* C30: a command (add, toggle, delete, delete_all) that replied with success
\* is not undone by a state write that overlaps it: once the command and the
\* state writes have finished, the stored configuration reflects the command.
C30_CommandNotUndone ==
    (pc = "overlap" /\ dIn.cmd.pc = "done" /\ dIn.cmd.reply.kind = "success"
       /\ WritesDone) => CommandReflected

\* The document u1 has when the overlapping invocations start
OverlapStart ==
    [notification_settings |->
         [telegram_enabled |-> TRUE, pushover_enabled |-> TRUE],
     searches |-> <<new_search("A", 1, 2), new_search("C", 1, 2)>>]

\* C31: while two invocations of the scheduled check write the state of the
\* same search (no command being sent), the stored state of that search is
\* absent or the state computed by one of the two, and the rest of the
\* document (the other search, names, flags, settings) is as it was.
C31_SameSearchNoCorruption ==
    (pc = "overlap" /\ dIn.cmd.op = "none"
       /\ dIn.w1.search_name = dIn.w2.search_name) =>
        /\ StoredState(store, "u1", dIn.w1.search_name)
               \in {Null, dIn.w1.new_state, dIn.w2.new_state}
        /\ store["u1"].notification_settings = OverlapStart.notification_settings
        /\ Len(store["u1"].searches) = 2
        /\ \A i \in 1..2 :
               IF OverlapStart.searches[i].name = dIn.w1.search_name
               THEN \E st \in {Null, dIn.w1.new_state, dIn.w2.new_state} :
                       store["u1"].searches[i] =
                           [OverlapStart.searches[i] EXCEPT
                               !.last_availability_state = st]
               ELSE store["u1"].searches[i] = OverlapStart.searches[i]

\* Both writes for A loaded before either saved; the first save was
\* overwritten by the second, whose state A now holds
C31_Witness ==
    /\ pc = "overlap"
    /\ dIn.cmd.op = "none"
    /\ WritesDone
    /\ dIn.w1.ok /\ dIn.w2.ok
    /\ dIn.w1.search_name = "A"
    /\ dIn.w2.search_name = "A"
    /\ dIn.w1.config = OverlapStart
    /\ dIn.w2.config = OverlapStart
    /\ dIn.w1.new_state # dIn.w2.new_state
    /\ StoredState(store, "u1", "A") \in {dIn.w1.new_state, dIn.w2.new_state}
    /\ StoredState(store, "u1", "C") = Null

\* C32: a scheduled check that finds no availability for a search whose
\* stored state already has has_sites=false writes nothing and leaves that
\* state, last_checked included, as it was; on the no-availability path a
\* write is made only when the stored state is absent or has has_sites=true.
C32_NoWriteWhenAlreadyNone ==
    (CheckedOk /\ ~lastCheck.has) =>
        /\ (lastCheck.stored_before # Null /\ ~lastCheck.stored_before.has_sites) =>
               /\ lastCheck.out.write = Null
               /\ StoredNow = lastCheck.stored_before
        /\ lastCheck.out.write # Null =>
               \/ lastCheck.stored_before = Null
               \/ lastCheck.stored_before.has_sites

\* The third pass finds none again: the state written by an earlier pass,
\* with its older last_checked, is still the stored one
C32_Witness ==
    /\ CheckedOk
    /\ ~lastCheck.has
    /\ now = 3
    /\ lastCheck.out.write = Null
    /\ lastCheck.stored_before # Null
    /\ ~lastCheck.stored_before.has_sites
    /\ lastCheck.stored_before.last_checked < now
    /\ StoredNow = lastCheck.stored_before

\* C33: a message is attempted only by the check that detects a transition
\* worth notifying; when a delivery of it failed, the next check of the
\* search that finds the same count decides not to notify and attempts
\* nothing.
C33_NoRetryAfterFailedDelivery ==
    /\ (CheckedOk /\ lastCheck.out.attempts # <<>>) =>
           /\ lastCheck.out.notify
           /\ lastCheck.out.reason \in NotifyReasons
    /\ (CheckedOk /\ lastCheck.has /\ lastCheck.failed_before
           /\ lastCheck.count = lastCheck.last_avail_before) =>
           /\ ~lastCheck.out.notify
           /\ lastCheck.out.attempts = <<>>

\* Three sites again, after a check whose message for three sites was not
\* delivered, with a channel that could be used: nothing is attempted
C33_Witness ==
    /\ CheckedOk
    /\ lastCheck.has
    /\ lastCheck.failed_before
    /\ lastCheck.count = 3
    /\ lastCheck.last_avail_before = 3
    /\ UsableChannels # {}
    /\ lastCheck.out.attempts = <<>>

\* This step belongs to a manual check
ManualStep ==
    \/ pc = "manual"
    \/ pc' = "manual"
    \/ pc = "idle" /\ pc' = "idle" /\ now' = now
          /\ lastCheck'.kind = "manual_none"

\* C34: no step of a manual check changes the store, and each lookup of a
\* manual check that reports availability is followed by an availability
\* message to the chat, whatever state is stored for the search.
C34_ManualCheckReadOnly ==
    [][ManualStep =>
          /\ store' = store
          /\ (lastCheck'.kind = "ok" /\ lastCheck'.has) =>
                 /\ lastCheck'.out.attempts = <<"telegram">>
                 /\ lastCheck'.out.msg = "found"]_vars

\* A manual check reports the three sites that the store already holds for
\* the search (a scheduled check would stay silent) and writes nothing
C34_Witness ==
    /\ pc = "manual"
    /\ lastCheck.kind = "ok"
    /\ lastCheck.has
    /\ lastCheck.out.tag = "manual"
    /\ lastCheck.out.attempts = <<"telegram">>
    /\ StoredState(store, lastCheck.user, lastCheck.name) =
           [has_sites |-> TRUE, site_count |-> 3, last_checked |-> 1]
    /\ now = 2

-----------------------------------------------------------------------------
(* The packaged lightweight bot handler: its own load, save, /add, /toggle *)
(* and /delete, which compare search names with ==, in and !=.             *)

\* The lightweight save_user_config: whether put_object succeeded, the store
\* after the call and the put_object call made
lightweight_save_user_config(s3, user_id, config, put_ok) ==
    [ok |-> put_ok,
     s3 |-> IF put_ok THEN [s3 EXCEPT ![user_id] = config] ELSE s3,
     writes |-> <<[doc |-> "config", ok |-> put_ok, config |-> config]>>]

\* The lightweight load_user_config: a missing document is created with the
\* default configuration, any other read error gives None
lightweight_load_user_config(s3, user_id, get_ok, put_ok) ==
    IF ~get_ok THEN [config |-> Null, s3 |-> s3, writes |-> <<>>]
    ELSE IF s3[user_id] = Null
    THEN [config |-> default_config,
          s3 |-> lightweight_save_user_config(s3, user_id, default_config,
                                              put_ok).s3,
          writes |-> <<[doc |-> "default", ok |-> put_ok,
                        config |-> default_config]>>]
    ELSE [config |-> s3[user_id], s3 |-> s3, writes |-> <<>>]

\* The final save of a lightweight command and the reply that depends on it
lightweight_SaveAndReply(loaded, user_id, config, put_ok, success_text, error_text) ==
    LET saved == lightweight_save_user_config(loaded.s3, user_id, config, put_ok)
    IN  CommandResult(saved.s3,
                      IF saved.ok THEN Reply("success", success_text)
                      ELSE Reply("error", error_text),
                      loaded.writes \o saved.writes, config)

\* The lightweight /add: date and park validation, "search_name in
\* existing_names", then append and save
lightweight_handle_add_command(s3, user_id, search_name, start_date, end_date, park_ok, today, get_ok, put_ok) ==
    IF search_name = ""
    THEN CommandResult(s3, Reply("usage", "add_format"), <<>>, Null)
    ELSE IF \/ start_date = -1
            \/ start_date >= end_date
            \/ start_date < today
    THEN CommandResult(s3, Reply("error", "invalid_date"), <<>>, Null)
    ELSE IF ~park_ok
    THEN CommandResult(s3, Reply("error", "invalid_park"), <<>>, Null)
    ELSE LET loaded == lightweight_load_user_config(s3, user_id, get_ok, put_ok)
         IN  IF loaded.config = Null
             THEN CommandResult(loaded.s3, Reply("error", "load_error"),
                                loaded.writes, Null)
             ELSE IF \E i \in 1..Len(loaded.config.searches) :
                         loaded.config.searches[i].name = search_name
             THEN CommandResult(loaded.s3, Reply("error", "duplicate"),
                                loaded.writes, Null)
             ELSE lightweight_SaveAndReply(loaded, user_id,
                      [loaded.config EXCEPT !.searches =
                           Append(@, [name |-> search_name, enabled |-> TRUE,
                                      nights |-> end_date - start_date,
                                      last_availability_state |-> Null])],
                      put_ok, "added", "save_error")

\* The lightweight /toggle: the first search whose name == search_name is
\* flipped and the configuration saved
lightweight_handle_toggle_command(s3, user_id, search_name, get_ok, put_ok) ==
    IF search_name = ""
    THEN CommandResult(s3, Reply("usage", "toggle_usage"), <<>>, Null)
    ELSE LET loaded == lightweight_load_user_config(s3, user_id, get_ok, put_ok)
         IN  IF loaded.config = Null
             THEN CommandResult(loaded.s3, Reply("error", "load_error"),
                                loaded.writes, Null)
             ELSE LET hits == {i \in 1..Len(loaded.config.searches) :
                                  loaded.config.searches[i].name = search_name}
                  IN  IF hits = {}
                      THEN CommandResult(loaded.s3, Reply("error", "not_found"),
                                         loaded.writes, Null)
                      ELSE LET k == CHOOSE i \in hits : \A j \in hits : i <= j
                           IN  lightweight_SaveAndReply(loaded, user_id,
                                   [loaded.config EXCEPT !.searches[k].enabled = ~@],
                                   put_ok, "toggled", "save_error")

\* The lightweight /delete: every search whose name != search_name is kept
lightweight_handle_delete_command(s3, user_id, search_name, get_ok, put_ok) ==
    IF search_name = ""
    THEN CommandResult(s3, Reply("usage", "delete_usage"), <<>>, Null)
    ELSE LET loaded == lightweight_load_user_config(s3, user_id, get_ok, put_ok)
         IN  IF loaded.config = Null
             THEN CommandResult(loaded.s3, Reply("error", "load_error"),
                                loaded.writes, Null)
             ELSE LET kept == SelectSeq(loaded.config.searches,
                                        LAMBDA q : q.name # search_name)
                  IN  IF Len(kept) < Len(loaded.config.searches)
                      THEN lightweight_SaveAndReply(loaded, user_id,
                               [loaded.config EXCEPT !.searches = kept],
                               put_ok, "deleted", "save_error")
                      ELSE CommandResult(loaded.s3, Reply("error", "not_found"),
                                         loaded.writes, Null)

\* The names typed to the lightweight handler: two that differ only in case,
\* and a command without a name
LightweightNames == {"A", "a", ""}

\* The lightweight handler's invocations start from the bot's stores
InitLightweight ==
    /\ store \in
         {[u \in UserIds |->
              IF u = "u1" THEN doc
              ELSE [default_config EXCEPT !.searches =
                        <<new_search("B", 1, 2)>>]] :
          doc \in {Null,
                   [notification_settings |->
                        [telegram_enabled |-> TRUE, pushover_enabled |-> TRUE],
                    searches |->
                        <<[new_search("A", 1, 2) EXCEPT
                              !.last_availability_state =
                                  [has_sites |-> TRUE, site_count |-> 3,
                                   last_checked |-> 0]]>>]}}
    /\ env = [bot_token |-> TRUE, pushover_keys |-> TRUE]
    /\ now = 0
    /\ pc = "lightweight"
    /\ user_configs = <<>>
    /\ ui = 0
    /\ si = 0
    /\ lastCheck = NoCheck
    /\ hist = NoHistory
    /\ dIn = Null
    /\ dOut = Null
    /\ lastCmd = NoCmd

LightweightAdd ==
    /\ pc = "lightweight"
    /\ \E user_id \in BotUsers, search_name \in LightweightNames,
          start_date \in StartDates, end_date \in EndDates,
          park_ok \in BOOLEAN, today \in Todays,
          get_ok \in BOOLEAN, put_ok \in BOOLEAN :
          Handled("add", user_id, search_name, start_date, end_date, park_ok,
                  today, get_ok, put_ok,
                  lightweight_handle_add_command(store, user_id, search_name,
                      start_date, end_date, park_ok, today, get_ok, put_ok))

LightweightToggle ==
    /\ pc = "lightweight"
    /\ \E user_id \in BotUsers, search_name \in LightweightNames,
          get_ok \in BOOLEAN, put_ok \in BOOLEAN :
          Handled("toggle", user_id, search_name, 0, 0, TRUE, 0, get_ok, put_ok,
                  lightweight_handle_toggle_command(store, user_id, search_name,
                                                    get_ok, put_ok))

LightweightDelete ==
    /\ pc = "lightweight"
    /\ \E user_id \in BotUsers, search_name \in LightweightNames,
          get_ok \in BOOLEAN, put_ok \in BOOLEAN :
          Handled("delete", user_id, search_name, 0, 0, TRUE, 0, get_ok, put_ok,
                  lightweight_handle_delete_command(store, user_id, search_name,
                                                    get_ok, put_ok))

\* The lightweight invocation that handled the command returns
LightweightEnd ==
    /\ pc = "lightweight"
    /\ lastCmd # NoCmd
    /\ lastCmd' = NoCmd
    /\ UNCHANGED <<store, env, now, pc, user_configs, ui, si, lastCheck, hist,
                   dIn, dOut>>

NextLightweight ==
    \/ LightweightAdd
    \/ LightweightToggle
    \/ LightweightDelete
    \/ LightweightEnd

SpecLightweight == InitLightweight /\ [][NextLightweight]_vars

\* C35: the lightweight handler matches search names ignoring case: its add
\* is rejected as a duplicate when the user has a search whose name equals the
\* new name ignoring case, and its toggle and delete, given a name that equals
\* a search's name ignoring case, find that search (no "not found" reply).
C35_LightweightIgnoresCase ==
    (pc = "lightweight" /\ lastCmd.op \in {"add", "toggle", "delete"}
        /\ lastCmd.reply.kind # "usage" /\ lastCmd.get_ok
        /\ NamedBefore # {}
        /\ (lastCmd.op = "add" =>
                /\ ValidDates(lastCmd.start_date, lastCmd.end_date, lastCmd.today)
                /\ lastCmd.park_ok)) =>
       IF lastCmd.op = "add"
       THEN lastCmd.reply = Reply("error", "duplicate")
            /\ store[lastCmd.user] = lastCmd.before
       ELSE lastCmd.reply.text # "not_found"

=============================================================================
